---------------------------- MODULE Spec2Model ----------------------------
(***************************************************************************)
(* A model of the visit-diff traversal protocol (cbiffle/visit-diff).      *)
(*                                                                         *)
(* One comparison session is modelled: two operands a, b of one type, a    *)
(* difference consumer (differ), the Diff::diff implementation of the      *)
(* operands' type driving the consumer, and the consumer's sub-visitor     *)
(* accumulating one call at a time.  Nested comparisons are function       *)
(* calls in the source (Accumulator::consider calls any_difference, the    *)
(* renderer formats a nested DebugDiff) and are recursive operators here.  *)
(***************************************************************************)
EXTENDS Integers, Sequences, FiniteSets, TLC

(***************************************************************************)
(* Bounds of the model.                                                    *)
(***************************************************************************)
\* longest top-level sequence of atomic elements
MaxLen == 3
\* longest sequence that is nested in, or holds, another composite
MaxNest == 2
\* keys of ordered maps and sets are 0 .. MaxKey
MaxKey == 2
\* keys of hashed maps are 0 .. MaxHKey
MaxHKey == 1
\* elements of hashed sets are 0 .. MaxHElem
MaxHElem == 2

\* the failing write of a failing sink is one of the first MaxFail
MaxFail == 4

(***************************************************************************)
(* Values.  Every value is a record [k, n, ks, c]: k the shape of its      *)
(* type, n its scalar payload (the number of an atomic value, the variant  *)
(* index of an enum), ks the keys of a map or the elements of a set in     *)
(* the collection's iteration order, c the nested values (fields,          *)
(* elements, map values) in order.                                         *)
(***************************************************************************)
V(k, n, ks, c) == [k |-> k, n |-> n, ks |-> ks, c |-> c]

\* bool / usize / u32 ...: compared with PartialEq
Atom(n) == V("atom", n, <<>>, <<>>)
\* a finite f64
Float(n) == V("float", n, <<>>, <<>>)
\* f64::NAN
NaN == V("nan", 0, <<>>, <<>>)
\* ()
Unit == V("unit", 0, <<>>, <<>>)
\* a derived unit struct (struct TestUStruct;)
UnitStruct == V("ustruct", 0, <<>>, <<>>)
\* a struct with named fields, fields in declaration order
Struct(fs) == V("struct", 0, <<>>, fs)
\* a tuple
Tuple(fs) == V("tuple", 0, <<>>, fs)
\* an enum value with unit and struct-like variants: variant index, fields
Enum(tag, fs) == V("enum", tag, <<>>, fs)
\* an enum value with unit and tuple-like variants (Option, Result)
TEnum(tag, fs) == V("tenum", tag, <<>>, fs)
\* stands for the absent side of an excess entry
NoValue == V("none", 0, <<>>, <<>>)
\* a newtype reported through diff_newtype
Newtype(x) == V("newtype", 0, <<>>, <<x>>)
\* slice, array, Vec, VecDeque, LinkedList
SeqV(es) == V("seq", 0, <<>>, es)
\* BTreeMap: ks strictly ascending
BMap(ks, vs) == V("bmap", 0, ks, vs)
\* BTreeSet: ks strictly ascending
BSet(ks) == V("bset", 0, ks, <<>>)
\* HashMap: ks in the instance's (unspecified) iteration order
HMap(ks, vs) == V("hmap", 0, ks, vs)
\* HashSet: ks in the instance's (unspecified) iteration order
\* a derived enum: variant 0 is a unit variant, 1 has named fields, 2 unnamed
DEnum(tag, fs) == V("denum", tag, <<>>, fs)
\* a derived tuple struct
TStruct(fs) == V("tstruct", 0, <<>>, fs)
\* a struct / a tuple struct whose hand-written Diff impl calls skip_field for
\* the fields listed in skipped, and diff_field for the others
SkipStruct(fs, skipped) == V("sstruct", 0, skipped, fs)
SkipTuple(fs, skipped) == V("stuple", 0, skipped, fs)
HSet(ks) == V("hset", 0, ks, <<>>)

(***************************************************************************)
(* Bounded sets of sequences.                                              *)
(***************************************************************************)
RECURSIVE SeqsOfLen(_, _)
SeqsOfLen(E, n) ==
  IF n = 0 THEN {<<>>}
  ELSE {Append(s, e) : s \in SeqsOfLen(E, n - 1), e \in E}

SeqsUpTo(E, n) == UNION {SeqsOfLen(E, m) : m \in 0..n}

\* the sequences that list every element of S exactly once
RECURSIVE Perms(_)
Perms(S) ==
  IF S = {} THEN {<<>>}
  ELSE UNION {{<<x>> \o p : p \in Perms(S \ {x})} : x \in S}

IsAscending(s) == \A i \in 1..(Len(s) - 1) : s[i] < s[i + 1]

\* iteration orders of the ordered collections over keys 0..m: ascending
OrderedKeySeqs(m) ==
  {p \in UNION {Perms(S) : S \in SUBSET (0..m)} : IsAscending(p)}

\* iteration orders of the hashed collections over keys 0..m: any order
HashedKeySeqs(m) == UNION {Perms(S) : S \in SUBSET (0..m)}

(***************************************************************************)
(* Diff::diff: the first call an implementation makes on its consumer.     *)
(***************************************************************************)
\* `a != b` of PartialEq; for f32/f64 a NaN is unequal to everything
PartialNe(x, y) ==
  IF x.k \in {"float", "nan"}
  THEN x.k = "nan" \/ y.k = "nan" \/ x.n # y.n
  ELSE x.n # y.n

FirstCall(x, y) ==
  CASE x.k \in {"atom", "float", "nan"} ->
         IF PartialNe(x, y) THEN "difference" ELSE "same"
    [] x.k \in {"unit", "ustruct"} -> "same"
    [] x.k = "enum" ->
         IF x.n # y.n THEN "difference"
         ELSE IF Len(x.c) = 0 THEN "same" ELSE "begin_struct_variant"
    [] x.k = "tenum" ->
         IF x.n # y.n THEN "difference"
         ELSE IF Len(x.c) = 0 THEN "same" ELSE "begin_tuple_variant"
    [] x.k = "denum" ->
         IF x.n # y.n THEN "difference"
         ELSE IF Len(x.c) = 0 THEN "same"
         ELSE IF x.n = 1 THEN "begin_struct" ELSE "begin_tuple"
    [] x.k = "newtype" -> "diff_newtype"
    [] x.k \in {"struct", "sstruct"} -> "begin_struct"
    [] x.k \in {"tuple", "tstruct", "stuple"} -> "begin_tuple"
    [] x.k = "seq" -> "begin_seq"
    [] x.k \in {"bmap", "hmap"} -> "begin_map"
    [] x.k \in {"bset", "hset"} -> "begin_set"

IsBegin(f) == f \notin {"same", "difference", "diff_newtype"}

(***************************************************************************)
(* The calls made on the sub-visitor.  A call is [ev, key, l, r, cur]:     *)
(* the method, the key / position / field index, the two values (NoValue   *)
(* for an absent side) and the loop position after the call.               *)
(***************************************************************************)
Cur0 == [i |-> 1, j |-> 1]

Call(ev, key, l, r, c) == [ev |-> ev, key |-> key, l |-> l, r |-> r, cur |-> c]

EndCall(c) == Call("end", 0, NoValue, NoValue, c)

Max(m, n) == IF m >= n THEN m ELSE n
Min(m, n) == IF m <= n THEN m ELSE n

Range(s) == {s[i] : i \in 1..Len(s)}

IndexOf(s, k) == CHOOSE i \in 1..Len(s) : s[i] = k

\* F applied to the value of v, which is computed once
With(v, F(_)) == CHOOSE y \in {F(x) : x \in {v}} : TRUE

\* faulty variant of ZipLongest: zip, which stops at the end of the shorter side
ZipLongest_shortest(left, right, i) ==
  IF i <= Len(left) /\ i <= Len(right) THEN "Both" ELSE "None"

\* itertools zip_longest: the item at position i of the zipped iterator
ZipLongest(left, right, i) ==
  IF i <= Len(left) /\ i <= Len(right) THEN "Both"
  ELSE IF i <= Len(left) THEN "Left"
  ELSE IF i <= Len(right) THEN "Right"
  ELSE "None"

\* faulty variant of MergeJoinBy: the comparison is taken the wrong way round
MergeJoinBy_reversed(left, right, i, j) ==
  IF i > Len(left) /\ j > Len(right) THEN "None"
  ELSE IF j > Len(right) THEN "Left"
  ELSE IF i > Len(left) THEN "Right"
  ELSE IF left[i] = right[j] THEN "Both"
  ELSE IF left[i] > right[j] THEN "Left"
  ELSE "Right"

\* itertools merge_join_by(|i, j| i.cmp(j)): the item the next() call
\* yields with the left iterator at i and the right iterator at j
MergeJoinBy(left, right, i, j) ==
  IF i > Len(left) /\ j > Len(right) THEN "None"
  ELSE IF j > Len(right) THEN "Left"
  ELSE IF i > Len(left) THEN "Right"
  ELSE IF left[i] = right[j] THEN "Both"
  ELSE IF left[i] < right[j] THEN "Left"
  ELSE "Right"

\* faulty variant of FieldsNext: the right value is taken from the mirrored
\* field
FieldsNext_crossed(x, y, c) ==
  IF c.i > Len(x.c) THEN EndCall(c)
  ELSE Call("diff_field", c.i, x.c[c.i], y.c[Len(y.c) + 1 - c.i], [c EXCEPT !.i = @ + 1])

\* struct, tuple and variant walks: one diff_field per declared field
FieldsNext(x, y, c) ==
  IF c.i > Len(x.c) THEN EndCall(c)
  ELSE IF c.i \in Range(x.ks)
  THEN Call("skip_field", c.i, NoValue, NoValue, [c EXCEPT !.i = @ + 1])
  ELSE Call("diff_field", c.i, x.c[c.i], y.c[c.i], [c EXCEPT !.i = @ + 1])

\* SeqDiffer::diff_elements, the trait's default
DiffElementsNext(x, y, c) ==
  LET ab == ZipLongest(x.c, y.c, c.i)
      n == [c EXCEPT !.i = @ + 1]
  IN CASE ab = "Both" -> Call("diff_element", c.i, x.c[c.i], y.c[c.i], n)
       [] ab = "Left" -> Call("left_excess", c.i, x.c[c.i], NoValue, n)
       [] ab = "Right" -> Call("right_excess", c.i, NoValue, y.c[c.i], n)
       [] OTHER -> EndCall(c)

\* a sequence given to a sub-visitor that overrides diff_elements: one call
DiffElementsOverride(x, y, c) ==
  IF c.i = 1 THEN Call("diff_elements", 0, x, y, [c EXCEPT !.i = @ + 1])
  ELSE EndCall(c)

\* faulty variant of BTreeMapNext: an entry only in the right map is reported
\* and the right iterator is not advanced
BTreeMapNext_stuck(x, y, c) ==
  LET ab == MergeJoinBy(x.ks, y.ks, c.i, c.j)
  IN CASE ab = "Left" ->
            Call("only_in_left", x.ks[c.i], x.c[c.i], NoValue, [c EXCEPT !.i = @ + 1])
       [] ab = "Right" -> Call("only_in_right", y.ks[c.j], NoValue, y.c[c.j], c)
       [] ab = "Both" ->
            Call("diff_entry", x.ks[c.i], x.c[c.i], y.c[c.j], [i |-> c.i + 1, j |-> c.j + 1])
       [] OTHER -> EndCall(c)

\* faulty variant of BTreeMapNext_peekable: the keys left over when one
\* iterator is exhausted are not reported
BTreeMapNext_peekable_no_rest(x, y, c) ==
  IF c.i <= Len(x.ks) /\ c.j <= Len(y.ks) THEN
    CASE x.ks[c.i] < y.ks[c.j] ->
           Call("only_in_left", x.ks[c.i], x.c[c.i], NoValue, [c EXCEPT !.i = @ + 1])
      [] x.ks[c.i] = y.ks[c.j] ->
           Call("diff_entry", x.ks[c.i], x.c[c.i], y.c[c.j], [i |-> c.i + 1, j |-> c.j + 1])
      [] OTHER ->
           Call("only_in_right", y.ks[c.j], NoValue, y.c[c.j], [c EXCEPT !.j = @ + 1])
  ELSE EndCall(c)

\* BTreeMap in the root crate: a hand-written merge over two peekable key
\* iterators, then the rest of the left keys, then the rest of the right keys
BTreeMapNext_peekable(x, y, c) ==
  IF c.i <= Len(x.ks) /\ c.j <= Len(y.ks) THEN
    CASE x.ks[c.i] < y.ks[c.j] ->
           Call("only_in_left", x.ks[c.i], x.c[c.i], NoValue, [c EXCEPT !.i = @ + 1])
      [] x.ks[c.i] = y.ks[c.j] ->
           Call("diff_entry", x.ks[c.i], x.c[c.i], y.c[c.j], [i |-> c.i + 1, j |-> c.j + 1])
      [] OTHER ->
           Call("only_in_right", y.ks[c.j], NoValue, y.c[c.j], [c EXCEPT !.j = @ + 1])
  ELSE IF c.i <= Len(x.ks) THEN
    Call("only_in_left", x.ks[c.i], x.c[c.i], NoValue, [c EXCEPT !.i = @ + 1])
  ELSE IF c.j <= Len(y.ks) THEN
    Call("only_in_right", y.ks[c.j], NoValue, y.c[c.j], [c EXCEPT !.j = @ + 1])
  ELSE EndCall(c)

\* BTreeMap: itertools' merge_join_by over the entries
BTreeMapNext(x, y, c) ==
  LET ab == MergeJoinBy(x.ks, y.ks, c.i, c.j)
  IN CASE ab = "Left" ->
            Call("only_in_left", x.ks[c.i], x.c[c.i], NoValue, [c EXCEPT !.i = @ + 1])
       [] ab = "Right" ->
            Call("only_in_right", y.ks[c.j], NoValue, y.c[c.j], [c EXCEPT !.j = @ + 1])
       [] ab = "Both" ->
            Call("diff_entry", x.ks[c.i], x.c[c.i], y.c[c.j], [i |-> c.i + 1, j |-> c.j + 1])
       [] OTHER -> EndCall(c)

BTreeSetNext(x, y, c) ==
  LET ab == MergeJoinBy(x.ks, y.ks, c.i, c.j)
  IN CASE ab = "Left" ->
            Call("only_in_left", x.ks[c.i], Atom(x.ks[c.i]), NoValue, [c EXCEPT !.i = @ + 1])
       [] ab = "Right" ->
            Call("only_in_right", y.ks[c.j], NoValue, Atom(y.ks[c.j]), [c EXCEPT !.j = @ + 1])
       [] ab = "Both" ->
            Call("diff_equal", x.ks[c.i], Atom(x.ks[c.i]), Atom(y.ks[c.j]),
                 [i |-> c.i + 1, j |-> c.j + 1])
       [] OTHER -> EndCall(c)

\* HashMap: `for (k, va) in a`, then `for (k, vb) in b`; an iteration of the
\* second loop whose key is in a makes no call
RECURSIVE HashMapNext(_, _, _)
HashMapNext(x, y, c) ==
  IF c.i <= Len(x.ks) THEN
    LET k == x.ks[c.i]
        n == [c EXCEPT !.i = @ + 1]
    IN IF k \in Range(y.ks)
       THEN Call("diff_entry", k, x.c[c.i], y.c[IndexOf(y.ks, k)], n)
       ELSE Call("only_in_left", k, x.c[c.i], NoValue, n)
  ELSE IF c.j <= Len(y.ks) THEN
    LET k == y.ks[c.j]
        n == [c EXCEPT !.j = @ + 1]
    IN IF k \notin Range(x.ks)
       THEN Call("only_in_right", k, NoValue, y.c[c.j], n)
       ELSE HashMapNext(x, y, n)
  ELSE EndCall(c)

\* faulty variant of HashSetNext: the last loop runs over all of b, not b.difference(a)
RECURSIVE HashSetNext_all_of_b(_, _, _)
HashSetNext_all_of_b(x, y, c) ==
  LET la == Len(x.ks) IN
  IF c.i <= la THEN
    LET e == x.ks[c.i]
        n == [c EXCEPT !.i = @ + 1]
    IN IF e \in Range(y.ks)
       THEN Call("diff_equal", e, Atom(e), Atom(y.ks[IndexOf(y.ks, e)]), n)
       ELSE HashSetNext_all_of_b(x, y, n)
  ELSE IF c.i <= 2 * la THEN
    LET e == x.ks[c.i - la]
        n == [c EXCEPT !.i = @ + 1]
    IN IF e \notin Range(y.ks)
       THEN Call("only_in_left", e, Atom(e), NoValue, n)
       ELSE HashSetNext_all_of_b(x, y, n)
  ELSE IF c.j <= Len(y.ks) THEN
    Call("only_in_right", y.ks[c.j], NoValue, Atom(y.ks[c.j]), [c EXCEPT !.j = @ + 1])
  ELSE EndCall(c)

\* HashSet: a.intersection(b), then a.difference(b), then b.difference(a);
\* i runs over a twice (1..len for the first loop, len+1..2*len for the second)
RECURSIVE HashSetNext(_, _, _)
HashSetNext(x, y, c) ==
  LET la == Len(x.ks) IN
  IF c.i <= la THEN
    LET e == x.ks[c.i]
        n == [c EXCEPT !.i = @ + 1]
    IN IF e \in Range(y.ks)
       THEN Call("diff_equal", e, Atom(e), Atom(y.ks[IndexOf(y.ks, e)]), n)
       ELSE HashSetNext(x, y, n)
  ELSE IF c.i <= 2 * la THEN
    LET e == x.ks[c.i - la]
        n == [c EXCEPT !.i = @ + 1]
    IN IF e \notin Range(y.ks)
       THEN Call("only_in_left", e, Atom(e), NoValue, n)
       ELSE HashSetNext(x, y, n)
  ELSE IF c.j <= Len(y.ks) THEN
    LET e == y.ks[c.j]
        n == [c EXCEPT !.j = @ + 1]
    IN IF e \notin Range(x.ks)
       THEN Call("only_in_right", e, NoValue, Atom(e), n)
       ELSE HashSetNext(x, y, n)
  ELSE EndCall(c)

\* the kinds walked field by field on a Struct- or TupleDiffer
FieldKinds ==
  {"struct", "tuple", "enum", "tenum", "denum", "tstruct", "sstruct", "stuple"}

\* Detector's SeqDetector overrides diff_elements; DebugSeqDiff does not
OverridesDiffElements(d) == d \in {"Any", "All"}

\* the next call Diff::diff(x, y, _) makes on the sub-visitor of consumer d
NextCall(x, y, c, d) ==
  CASE x.k \in FieldKinds -> FieldsNext(x, y, c)
    [] x.k = "seq" ->
         IF OverridesDiffElements(d) THEN DiffElementsOverride(x, y, c)
         ELSE DiffElementsNext(x, y, c)
    [] x.k = "bmap" -> BTreeMapNext(x, y, c)
    [] x.k = "bset" -> BTreeSetNext(x, y, c)
    [] x.k = "hmap" -> HashMapNext(x, y, c)
    [] x.k = "hset" -> HashSetNext(x, y, c)

(***************************************************************************)
(* detect.rs: the two accumulators of the detector.                        *)
(***************************************************************************)
RECURSIVE any_difference(_, _)
RECURSIVE Detector_diff(_, _, _)

\* #[derive(Default)] struct Any(bool)
Any_default == FALSE

\* faulty variant of Any_consider: the guard is dropped, so that the last
\* part decides
Any_consider_last(s, x, y) == any_difference(x, y)

Any_consider(s, x, y) == IF ~s THEN any_difference(x, y) ELSE s

\* faulty variant of Any_consider_all: excess elements are not differences
Any_consider_all_zip(s, left, right) ==
  IF ~s
  THEN \E i \in 1..Min(Len(left), Len(right)) : any_difference(left[i], right[i])
  ELSE s

Any_consider_all(s, left, right) ==
  IF ~s
  THEN \E i \in 1..Max(Len(left), Len(right)) :
         IF ZipLongest(left, right, i) = "Both"
         THEN any_difference(left[i], right[i])
         ELSE TRUE
  ELSE s

\* faulty variant of Any_diff: an excess entry leaves the flag as it is
Any_diff_keeps(s) == s

Any_diff(s) == TRUE

Any_into_bool(s) == s

All_default == [all |-> TRUE, any |-> FALSE]

\* faulty variant of All_consider: the guard is on `any`, so that only the
\* first part is compared
All_consider_first_only(s, x, y) ==
  IF ~s.any THEN [all |-> any_difference(x, y), any |-> TRUE] ELSE s

\* faulty variant of All_consider: the guard on `all` is dropped, so that a
\* later part overwrites the flag
All_consider_overwrites(s, x, y) == [all |-> any_difference(x, y), any |-> TRUE]

All_consider(s, x, y) ==
  IF s.all THEN [all |-> any_difference(x, y), any |-> TRUE] ELSE s

\* the fold of All::consider_all over zip_longest, from position i on
RECURSIVE All_fold(_, _, _, _)
All_fold(s, left, right, i) ==
  LET ab == ZipLongest(left, right, i) IN
  IF ab = "None" THEN s
  ELSE All_fold(IF ab = "Both"
                THEN [all |-> s.all /\ any_difference(left[i], right[i]), any |-> TRUE]
                ELSE [all |-> FALSE, any |-> TRUE],
                left, right, i + 1)

All_consider_all(s, left, right) ==
  IF s.all THEN All_fold(s, left, right, 1) ELSE s

All_diff(s) == [s EXCEPT !.any = TRUE]

\* faulty variant of All_into_bool: the guard for "nothing was observed" is dropped
All_into_bool_unguarded(s) == s.all

All_into_bool(s) == s.any /\ s.all

\* the Accumulator trait, A the accumulator type
Acc_default(A) == IF A = "Any" THEN Any_default ELSE All_default

Acc_consider(A, s, x, y) ==
  IF A = "Any" THEN Any_consider(s, x, y) ELSE All_consider(s, x, y)

Acc_consider_all(A, s, left, right) ==
  IF A = "Any" THEN Any_consider_all(s, left, right)
  ELSE All_consider_all(s, left, right)

\* impl From<All> for bool: println!("{:?}", x), the line it prints
All_into_bool_prints(s) == <<s>>

\* what the conversion of the accumulator to bool prints
Acc_prints(A, s) == IF A = "Any" THEN <<>> ELSE All_into_bool_prints(s)

Acc_diff(A, s) == IF A = "Any" THEN Any_diff(s) ELSE All_diff(s)

Acc_into_bool(A, s) == IF A = "Any" THEN Any_into_bool(s) ELSE All_into_bool(s)

\* faulty variant of Detector_on: an entry only on the right is not observed
Detector_on_left_only(A, s, call) ==
  CASE call.ev \in {"diff_field", "diff_element", "diff_entry", "diff_equal"} ->
         Acc_consider(A, s, call.l, call.r)
    [] call.ev = "diff_elements" -> Acc_consider_all(A, s, call.l.c, call.r.c)
    [] call.ev \in {"left_excess", "only_in_left"} -> Acc_diff(A, s)
    [] call.ev \in {"right_excess", "only_in_right", "skip_field"} -> s

\* Struct-, Tuple-, Seq-, Set- and MapDetector: what each method does
Detector_on(A, s, call) ==
  CASE call.ev \in {"diff_field", "diff_element", "diff_entry", "diff_equal"} ->
         Acc_consider(A, s, call.l, call.r)
    [] call.ev = "diff_elements" -> Acc_consider_all(A, s, call.l.c, call.r.c)
    [] call.ev \in {"left_excess", "right_excess", "only_in_left", "only_in_right"} ->
         Acc_diff(A, s)
    [] call.ev = "skip_field" -> s

Detector_difference == TRUE

Detector_same == FALSE

Detector_diff_newtype(A, x, y) == Detector_diff(x.c[1], y.c[1], A)

\* the rest of a walk on a detector: every remaining call on the sub-visitor s
RECURSIVE Detector_walk(_, _, _, _, _)
Detector_walk(x, y, c, s, A) ==
  With(NextCall(x, y, c, A), LAMBDA nx :
    IF nx.ev = "end" THEN s
    ELSE Detector_walk(x, y, nx.cur, Detector_on(A, s, nx), A))

\* Diff::diff(x, y, Detector::<A>::default()): the boolean it returns
Detector_diff(x, y, A) ==
  LET f == FirstCall(x, y) IN
  CASE f = "same" -> Detector_same
    [] f = "difference" -> Detector_difference
    [] f = "diff_newtype" -> Detector_diff_newtype(A, x, y)
    [] OTHER -> Acc_into_bool(A, Detector_walk(x, y, Cur0, Acc_default(A), A))

\* the lines Diff::diff(x, y, Detector::<d>) prints on standard output
RECURSIVE Detector_prints(_, _, _)
Detector_prints(x, y, d) ==
  LET f == FirstCall(x, y) IN
  CASE f = "diff_newtype" -> Detector_prints(x.c[1], y.c[1], d)
    [] IsBegin(f) -> Acc_prints(d, Detector_walk(x, y, Cur0, Acc_default(d), d))
    [] OTHER -> <<>>

any_difference(x, y) == Detector_diff(x, y, "Any")

all_different(x, y) == Detector_diff(x, y, "All")

(***************************************************************************)
(* Text.  core::fmt: a Formatter writes tokens to the caller's sink.       *)
(***************************************************************************)
Digits == <<"0", "1", "2", "3", "4", "5", "6", "7", "8", "9">>

\* Debug of an unsigned number
Str(n) == Digits[n + 1]

FieldNames == <<"f1", "f2", "f3">>

VariantNames == <<"V0", "V1", "V2">>

\* a core::fmt::Formatter over a sink whose failAt-th write fails (0: none
\* does): out is the text the sink took, att the writes attempted, alt the
\* flag of {:#?}, depth the PadAdapters in force, nl "at the start of a line";
\* printed is the process's standard output, which the formatting may extend
Formatter(failAt, alt) ==
  [out |-> <<>>, att |-> 0, failAt |-> failAt, alt |-> alt, depth |-> 0, nl |-> FALSE,
   printed |-> <<>>]

\* a core::fmt::Result, with the formatter as the call leaves it
Result(w, ok) == [w |-> w, ok |-> ok]

\* one write_str on the sink itself
Sink_write_str(w0, tok) ==
  With(w0, LAMBDA w :
    IF w.att + 1 = w.failAt
    THEN Result([w EXCEPT !.att = @ + 1], FALSE)
    ELSE Result([w EXCEPT !.att = @ + 1, !.out = Append(@, tok)], TRUE))

\* PadAdapter: the indentation written at the start of a line, one unit per
\* adapter in force
RECURSIVE Indent(_, _)
Indent(w, k) ==
  IF k = 0 THEN Result(w, TRUE)
  ELSE With(Sink_write_str(w, "    "), LAMBDA r :
         IF r.ok THEN Indent(r.w, k - 1) ELSE r)

\* Formatter::write_str, through the PadAdapters in force
write_str(w0, tok) ==
  With(w0, LAMBDA w :
    With(IF w.nl THEN Indent(w, w.depth) ELSE Result(w, TRUE), LAMBDA r :
      IF ~r.ok THEN r
      ELSE With(Sink_write_str(r.w, tok), LAMBDA q :
             Result([q.w EXCEPT !.nl = (tok = "\n")], q.ok))))

\* a run of write_str calls chained with `?`
RECURSIVE write_all(_, _)
write_all(w, toks) ==
  IF toks = <<>> THEN Result(w, TRUE)
  ELSE With(write_str(w, Head(toks)), LAMBDA r :
         IF r.ok THEN write_all(r.w, Tail(toks)) ELSE r)

\* Formatter::debug_struct / debug_tuple / debug_list / debug_set / debug_map:
\* a builder is [bld, n, named, w, ok], n the entries so far, w the formatter
\* it writes to and ok its `result`
Builder(bld, name, w) ==
  With(write_all(w, CASE bld = "list" -> <<"[">>
                      [] bld \in {"set", "map"} -> <<"{">>
                      [] OTHER -> name),
       LAMBDA r : [bld |-> bld, n |-> 0, named |-> name # <<>>, w |-> r.w, ok |-> r.ok])

\* DebugStruct::field, DebugTuple::field, DebugList / DebugSet::entry,
\* DebugMap::entry up to the entry's own fmt: the separator and the key, on
\* the formatter the entry is written to (in {:#?} one PadAdapter deeper);
\* nothing is written once the builder's result is an error
Entry_open(s0, key) ==
  With(s0, LAMBDA s :
    IF ~s.ok THEN Result(s.w, FALSE)
    ELSE
      With(write_all(s.w,
             IF s.n > 0 THEN (IF s.w.alt THEN <<>> ELSE <<",">>)
             ELSE (CASE s.bld = "struct" -> <<"{">>
                     [] s.bld = "tuple" -> <<"(">>
                     [] OTHER -> <<>>) \o (IF s.w.alt THEN <<"\n">> ELSE <<>>)),
           LAMBDA r1 :
             IF r1.ok
             THEN write_all([r1.w EXCEPT !.depth = IF s.w.alt THEN @ + 1 ELSE @], key)
             ELSE r1))

\* the same methods after the entry's own fmt returned r0: in {:#?} the
\* trailing comma and newline, and the builder one entry further
Entry_close(s0, r0) ==
  With(s0, LAMBDA s :
    IF ~s.ok THEN s
    ELSE
      With(r0, LAMBDA r3 :
      With(IF r3.ok /\ s.w.alt THEN write_all(r3.w, <<",", "\n">>) ELSE r3, LAMBDA r4 :
        [s EXCEPT !.n = @ + 1,
                  !.w = [r4.w EXCEPT !.depth = s.w.depth],
                  !.ok = r4.ok])))

\* finish() of the builders
Builder_finish(s0) ==
  With(s0, LAMBDA s :
    IF ~s.ok THEN Result(s.w, FALSE)
    ELSE write_all(s.w,
           CASE s.bld = "struct" -> IF s.n > 0 THEN <<"}">> ELSE <<>>
             [] s.bld = "tuple" ->
                  IF s.n = 0 THEN <<>>
                  ELSE IF s.n = 1 /\ ~s.named /\ ~s.w.alt THEN <<",", ")">>
                  ELSE <<")">>
             [] s.bld = "list" -> <<"]">>
             [] s.bld \in {"set", "map"} -> <<"}">>))

\* the name the type of x gives to begin_* (and to its own Debug)
TypeName(x) ==
  CASE x.k = "struct" -> <<"Struct">>
    [] x.k = "tuple" -> <<>>
    [] x.k \in {"enum", "tenum", "denum"} -> <<VariantNames[x.n + 1]>>
    [] x.k = "tstruct" -> <<"TStruct">>
    [] x.k = "sstruct" -> <<"SkipStruct">>
    [] x.k = "stuple" -> <<"SkipTuple">>
    [] x.k = "newtype" -> <<"Newtype">>
    [] x.k = "ustruct" -> <<"UnitStruct">>
    [] x.k = "DIFF" -> <<"DIFF">>
    [] OTHER -> <<>>

\* x is walked on a StructDiffer (named fields), not on a TupleDiffer
IsNamed(x) == x.k \in {"struct", "enum", "sstruct"} \/ (x.k = "denum" /\ x.n = 1)

\* the kind of builder of a value: what its begin_* method, and its Debug,
\* open
BuilderKind(x) ==
  CASE IsNamed(x) \/ x.k = "DIFF" -> "struct"
    [] x.k \in {"tuple", "tenum", "newtype", "denum", "tstruct", "stuple"} -> "tuple"
    [] x.k = "seq" -> "list"
    [] x.k \in {"bset", "hset"} -> "set"
    [] x.k \in {"bmap", "hmap"} -> "map"

\* the builder a begin_* method of DebugDiffer opens on the formatter w
BuilderOf(x, w) == Builder(BuilderKind(x), TypeName(x), w)

\* the key written before part i of x: a field's name, a map's key
KeyOf(x, i) ==
  CASE x.k = "DIFF" -> <<(<<"L", "R">>)[i], ":">>
    [] IsNamed(x) -> <<FieldNames[i], ":">>
    [] x.k \in {"bmap", "hmap"} -> <<Str(x.ks[i]), ":">>
    [] OTHER -> <<>>

RECURSIVE FmtParts(_, _, _)
RECURSIVE Debug_fmt(_, _)

\* an entry whose value is x, formatted by its own Debug
Builder_entry(s0, key, x) ==
  With(s0, LAMBDA s :
    Entry_close(s, With(Entry_open(s, key), LAMBDA r :
                     IF r.ok THEN Debug_fmt(x, r.w) ELSE r)))

\* <T as Debug>::fmt: the canonical Debug rendering of a value (derived
\* Debug, std's impls), written to the formatter w
Debug_fmt(x, w) ==
  IF x.k \in {"atom", "float", "nan", "unit", "none", "ustruct"}
  THEN write_all(w, CASE x.k = "atom" -> <<Str(x.n)>>
                      [] x.k = "float" -> <<Str(x.n), ".0">>
                      [] x.k = "nan" -> <<"NaN">>
                      [] x.k = "unit" -> <<"()">>
                      [] x.k = "none" -> <<"(missing)">>
                      [] x.k = "ustruct" -> TypeName(x))
  ELSE Builder_finish(FmtParts(x, 1, BuilderOf(x, w)))

\* the fields / elements / entries of x from position i on
FmtParts(x, i, s) ==
  IF i > (IF x.k \in {"bset", "hset"} THEN Len(x.ks) ELSE Len(x.c)) THEN s
  ELSE FmtParts(x, i + 1,
         Builder_entry(s, KeyOf(x, i),
                       IF x.k \in {"bset", "hset"} THEN Atom(x.ks[i]) ELSE x.c[i]))

\* format!("{:?}", x) and format!("{:#?}", x): the text of a value
Fmt(x) == Debug_fmt(x, Formatter(0, FALSE)).w.out

FmtPretty(x) == Debug_fmt(x, Formatter(0, TRUE)).w.out

(***************************************************************************)
(* debug.rs: the text renderer.                                            *)
(***************************************************************************)
RECURSIVE DebugDiff_fmt(_, _, _)

\* #[derive(Debug)] struct DIFF<T, S> { L: T, R: S }
DIFF_LR(l, r) == V("DIFF", 0, <<>>, <<l, r>>)

\* DIFF { L: l, R: r } formatted to w
DIFF(l, r, w) == Debug_fmt(DIFF_LR(l, r), w)

\* struct Missing
Missing == NoValue

\* an entry whose value is DebugDiff(l, r)
Builder_entry_DebugDiff(s0, key, l, r) ==
  With(s0, LAMBDA s :
    Entry_close(s, With(Entry_open(s, key), LAMBDA q :
                     IF q.ok THEN DebugDiff_fmt(l, r, q.w) ELSE q)))

DebugDiffer_difference(x, y, w) == DIFF(x, y, w)

DebugDiffer_same(x, y, w) == Debug_fmt(x, w)

DebugDiffer_diff_newtype(x, y, w) ==
  Builder_finish(
    Builder_entry_DebugDiff(Builder("tuple", TypeName(x), w), <<>>, x.c[1], y.c[1]))

DebugDiffer_begin(x, w) == BuilderOf(x, w)

\* faulty variant of DebugSub_on: an entry only on the right is shown on the
\* left
DebugSub_on_swapped(s0, call) ==
  With(s0, LAMBDA s :
    With(CASE s.bld = "struct" -> <<FieldNames[call.key], ":">>
           [] s.bld = "map" -> <<Str(call.key), ":">>
           [] OTHER -> <<>>, LAMBDA key :
      CASE call.ev \in {"diff_field", "diff_element", "diff_entry", "diff_equal"} ->
             Builder_entry_DebugDiff(s, key, call.l, call.r)
        [] call.ev \in {"left_excess", "only_in_left"} ->
             Builder_entry(s, key, DIFF_LR(call.l, Missing))
        [] call.ev \in {"right_excess", "only_in_right"} ->
             Builder_entry(s, key, DIFF_LR(call.r, Missing))
        [] call.ev = "skip_field" -> s))

\* Debug{Struct,Tuple,Seq,Set,Map}Diff: what each method writes
DebugSub_on(s0, call) ==
  With(s0, LAMBDA s :
    With(CASE s.bld = "struct" -> <<FieldNames[call.key], ":">>
           [] s.bld = "map" -> <<Str(call.key), ":">>
           [] OTHER -> <<>>, LAMBDA key :
      CASE call.ev \in {"diff_field", "diff_element", "diff_entry", "diff_equal"} ->
             Builder_entry_DebugDiff(s, key, call.l, call.r)
        [] call.ev \in {"left_excess", "only_in_left", "right_excess", "only_in_right"} ->
             Builder_entry(s, key,
               IF call.ev \in {"left_excess", "only_in_left"}
               THEN DIFF_LR(call.l, Missing)
               ELSE DIFF_LR(Missing, call.r))
        [] call.ev = "skip_field" -> s))

\* faulty variant of DebugSub_end: the builder's result is dropped
DebugSub_end_ok(s) == Result(Builder_finish(s).w, TRUE)

\* end(): self.0.and_then(|mut f| f.finish())
DebugSub_end(s) == Builder_finish(s)

\* the rest of a walk on the renderer: every remaining call on the builder s
RECURSIVE Debug_walk(_, _, _, _)
Debug_walk(x, y, c, s) ==
  With(NextCall(x, y, c, "Debug"), LAMBDA nx :
    IF nx.ev = "end" THEN s
    ELSE Debug_walk(x, y, nx.cur, DebugSub_on(s, nx)))

\* Diff::diff(x, y, DebugDiffer(w)): the fmt::Result, and the formatter as the
\* call leaves it
Debug_diff(x, y, w) ==
  LET f == FirstCall(x, y) IN
  CASE f = "same" -> DebugDiffer_same(x, y, w)
    [] f = "difference" -> DebugDiffer_difference(x, y, w)
    [] f = "diff_newtype" -> DebugDiffer_diff_newtype(x, y, w)
    [] OTHER -> DebugSub_end(Debug_walk(x, y, Cur0, DebugDiffer_begin(x, w)))

\* faulty variant of DebugDiff_fmt: a nested pair is always traversed
DebugDiff_fmt_descends(x, y, w) ==
  Debug_diff(x, y, [w EXCEPT !.printed = @ \o Detector_prints(x, y, "All")])

\* impl Debug for DebugDiff: fmt
DebugDiff_fmt(x, y, w) ==
  With([w EXCEPT !.printed = @ \o Detector_prints(x, y, "All")], LAMBDA w1 :
    IF all_different(x, y)
    THEN DebugDiffer_difference(x, y, w1)
    ELSE Debug_diff(x, y, w1))

(***************************************************************************)
(* record.rs: the tree recorder.  A Value is a record tagged by t; an      *)
(* Option is a sequence of length 0 (None) or 1 (Some).                    *)
(***************************************************************************)
RECURSIVE Record_diff(_, _)

\* the name of the enum type of x, as given to begin_*_variant
EnumName(x) == IF x.k = "enum" THEN <<"TestEnum">> ELSE <<"Enum">>

\* no Value
NoTree == [t |-> "none"]

ValueRecorder_same(x, y) == [t |-> "Same", l |-> Fmt(x), r |-> Fmt(y)]

\* faulty variant of ValueRecorder_difference: the leaf is recorded as Same
ValueRecorder_difference_as_same(x, y) == [t |-> "Same", l |-> Fmt(x), r |-> Fmt(y)]

ValueRecorder_difference(x, y) == [t |-> "Difference", l |-> Fmt(x), r |-> Fmt(y)]

ValueRecorder_diff_newtype(x, y) ==
  [t |-> "Newtype", name |-> TypeName(x), val |-> Record_diff(x.c[1], y.c[1])]

\* begin_struct / begin_struct_variant / begin_tuple / begin_tuple_variant /
\* begin_seq / begin_map / begin_set: style is <<>> for OutputStyle::Raw and
\* <<ty>> for OutputStyle::VariantOf(ty)
ValueRecorder_begin(x) ==
  LET f == FirstCall(x, x) IN
  CASE f = "begin_struct" ->
         [rec |-> "struct", name |-> TypeName(x), style |-> <<>>, fields |-> <<>>]
    [] f = "begin_struct_variant" ->
         [rec |-> "struct", name |-> TypeName(x), style |-> <<EnumName(x)>>, fields |-> <<>>]
    [] f = "begin_tuple" ->
         [rec |-> "tuple", name |-> TypeName(x), style |-> <<>>, fields |-> <<>>]
    [] f = "begin_tuple_variant" ->
         [rec |-> "tuple", name |-> TypeName(x), style |-> <<EnumName(x)>>, fields |-> <<>>]
    [] f = "begin_seq" -> [rec |-> "seq", name |-> <<>>, style |-> <<>>, fields |-> <<>>]
    [] f = "begin_set" -> [rec |-> "set", name |-> <<>>, style |-> <<>>, fields |-> <<>>]
    [] f = "begin_map" -> [rec |-> "map", name |-> <<>>, style |-> <<>>, fields |-> <<>>]

\* enum Element
LeftOnly(x) == [e |-> "LeftOnly", s |-> Fmt(x), v |-> NoTree]
RightOnly(x) == [e |-> "RightOnly", s |-> Fmt(x), v |-> NoTree]
Both(v) == [e |-> "Both", s |-> <<>>, v |-> v]

\* faulty variant of Recorder_on: a skipped field is recorded as compared and
\* equal
Recorder_on_skip_as_same(s, call) ==
  LET val == IF call.ev = "skip_field"
             THEN ValueRecorder_same(call.l, call.r)
             ELSE Record_diff(call.l, call.r)
      el == CASE call.ev \in {"left_excess", "only_in_left"} -> LeftOnly(call.l)
              [] call.ev \in {"right_excess", "only_in_right"} -> RightOnly(call.r)
              [] OTHER -> Both(val)
      item ==
        CASE s.rec = "struct" -> [name |-> FieldNames[call.key], val |-> <<val>>]
          [] s.rec = "tuple" -> <<val>>
          [] s.rec = "map" -> [key |-> <<Str(call.key)>>, el |-> el]
          [] OTHER -> el
  IN [s EXCEPT !.fields = Append(@, item)]

\* StructRecorder, TupleRecorder, SequenceRecorder, MapRecorder: what each
\* method pushes (val: the Option<Value> of a field; el: the Element)
Recorder_on(s0, call) ==
  With(s0, LAMBDA s :
  With(IF call.ev \in {"diff_field", "diff_element", "diff_equal", "diff_entry"}
       THEN <<Record_diff(call.l, call.r)>>
       ELSE <<>>, LAMBDA val :
  With(CASE call.ev \in {"diff_element", "diff_equal", "diff_entry"} -> <<Both(val[1])>>
         [] call.ev \in {"left_excess", "only_in_left"} -> <<LeftOnly(call.l)>>
         [] call.ev \in {"right_excess", "only_in_right"} -> <<RightOnly(call.r)>>
         [] OTHER -> <<>>, LAMBDA el :
    [s EXCEPT !.fields =
       Append(@, CASE s.rec = "struct" -> [name |-> FieldNames[call.key], val |-> val]
                   [] s.rec = "tuple" -> val
                   [] s.rec = "map" -> [key |-> <<Str(call.key)>>, el |-> el[1]]
                   [] OTHER -> el[1])])))

\* the end methods of the recorders
Recorder_end(s0) ==
  With(s0, LAMBDA s :
    CASE s.rec = "struct" /\ s.style = <<>> ->
           [t |-> "Struct", name |-> s.name, fields |-> s.fields]
      [] s.rec = "struct" /\ s.style # <<>> ->
           [t |-> "Enum", name |-> s.style[1],
            variant |-> [t |-> "Struct", name |-> s.name, fields |-> s.fields]]
      [] s.rec = "tuple" /\ s.style = <<>> ->
           [t |-> "Tuple", name |-> s.name, fields |-> s.fields]
      [] s.rec = "tuple" /\ s.style # <<>> ->
           [t |-> "Enum", name |-> s.style[1],
            variant |-> [t |-> "Tuple", name |-> s.name, fields |-> s.fields]]
      [] s.rec = "seq" -> [t |-> "Sequence", elems |-> s.fields]
      [] s.rec = "set" -> [t |-> "Set", elems |-> s.fields]
      [] s.rec = "map" -> [t |-> "Map", elems |-> s.fields])

\* the rest of a walk on the recorder: every remaining call on the recorder s
RECURSIVE Recorder_walk(_, _, _, _)
Recorder_walk(x, y, c, s) ==
  With(NextCall(x, y, c, "Record"), LAMBDA nx :
    IF nx.ev = "end" THEN s
    ELSE Recorder_walk(x, y, nx.cur, Recorder_on(s, nx)))

\* Diff::diff(x, y, ValueRecorder): the Value it returns
Record_diff(x, y) ==
  LET f == FirstCall(x, y) IN
  CASE f = "same" -> ValueRecorder_same(x, y)
    [] f = "difference" -> ValueRecorder_difference(x, y)
    [] f = "diff_newtype" -> ValueRecorder_diff_newtype(x, y)
    [] OTHER -> Recorder_end(Recorder_walk(x, y, Cur0, ValueRecorder_begin(x)))

(***************************************************************************)
(* The Differ trait, dispatched on the consumer d; w is the formatter a    *)
(* DebugDiffer holds (the other consumers have none).                      *)
(***************************************************************************)
Differ_same(d, x, y, w) ==
  CASE d = "Debug" -> DebugDiffer_same(x, y, w)
    [] d = "Record" -> ValueRecorder_same(x, y)
    [] OTHER -> Detector_same

Differ_difference(d, x, y, w) ==
  CASE d = "Debug" -> DebugDiffer_difference(x, y, w)
    [] d = "Record" -> ValueRecorder_difference(x, y)
    [] OTHER -> Detector_difference

Differ_diff_newtype(d, x, y, w) ==
  CASE d = "Debug" -> DebugDiffer_diff_newtype(x, y, w)
    [] d = "Record" -> ValueRecorder_diff_newtype(x, y)
    [] OTHER -> Detector_diff_newtype(d, x, y)

Differ_begin(d, x, w) ==
  CASE d = "Debug" -> DebugDiffer_begin(x, w)
    [] d = "Record" -> ValueRecorder_begin(x)
    [] OTHER -> Acc_default(d)

Sub_on(d, s, call) ==
  CASE d = "Debug" -> DebugSub_on(s, call)
    [] d = "Record" -> Recorder_on(s, call)
    [] OTHER -> Detector_on(d, s, call)

Sub_end(d, s) ==
  CASE d = "Debug" -> DebugSub_end(s)
    [] d = "Record" -> Recorder_end(s)
    [] OTHER -> Acc_into_bool(d, s)

\* Diff::diff(x, y, out) for a consumer of kind d that writes to w: what it
\* returns (a detector: the boolean; the recorder: the Value; the renderer:
\* the fmt::Result and the formatter as it leaves it)
Diff_diff_to(x, y, d, w) ==
  CASE d = "Debug" -> Debug_diff(x, y, w)
    [] d = "Record" -> Record_diff(x, y)
    [] OTHER -> Detector_diff(x, y, d)

\* Diff::diff(x, y, out) for a detector or the recorder
Diff_diff(x, y, d) == Diff_diff_to(x, y, d, Formatter(0, FALSE))

\* `*left_val == *right_val`: PartialEq of the compared type (derived for the
\* composite types, std's for the collections: the hashed ones compare as
\* sets of entries)
RECURSIVE PartialEq(_, _)
PartialEq(x, y) ==
  CASE x.k \in {"atom", "float", "nan"} -> ~PartialNe(x, y)
    [] x.k = "hset" -> Range(x.ks) = Range(y.ks)
    [] x.k = "hmap" ->
         /\ Range(x.ks) = Range(y.ks)
         /\ \A i \in DOMAIN x.ks : PartialEq(x.c[i], y.c[IndexOf(y.ks, x.ks[i])])
    [] OTHER ->
         /\ x.n = y.n
         /\ x.ks = y.ks
         /\ Len(x.c) = Len(y.c)
         /\ \A i \in DOMAIN x.c : PartialEq(x.c[i], y.c[i])

\* the three forms of assert_eq_diff!
Forms == {"plain", "comma", "message"}

\* format_args!($($arg)+) of the caller
CallerMessage == <<"caller's message">>

\* no panic
NoPanic == <<>>

\* faulty variant of assert_eq_diff: the difference is printed with {:?}
RECURSIVE assert_eq_diff_compact(_, _, _)
assert_eq_diff_compact(x, y, form) ==
  IF form = "comma" THEN assert_eq_diff_compact(x, y, "plain")
  ELSE LET r == DebugDiff_fmt(x, y, Formatter(0, FALSE)) IN
       IF PartialEq(x, y) THEN [msg |-> NoPanic, printed |-> <<>>]
       ELSE [msg |-> <<"assertion failed: (left == right)", "\n">>
                       \o (IF form = "message" THEN CallerMessage \o <<"\n">> ELSE <<>>)
                       \o <<"difference:", "\n">> \o r.w.out,
             printed |-> r.w.printed]

\* assert_eq_diff!(x, y), assert_eq_diff!(x, y,) and assert_eq_diff!(x, y,
\* "..."): the panic message (NoPanic if it returns) and what the expansion
\* prints on standard output
RECURSIVE assert_eq_diff(_, _, _)
assert_eq_diff(x, y, form) ==
  IF form = "comma" THEN assert_eq_diff(x, y, "plain")
  ELSE LET r == DebugDiff_fmt(x, y, Formatter(0, TRUE)) IN
       IF PartialEq(x, y) THEN [msg |-> NoPanic, printed |-> <<>>]
       ELSE [msg |-> <<"assertion failed: (left == right)", "\n">>
                       \o (IF form = "message" THEN CallerMessage \o <<"\n">> ELSE <<>>)
                       \o <<"difference:", "\n">> \o r.w.out,
             printed |-> r.w.printed]

(***************************************************************************)
(* The types compared, each the set of its values.                         *)
(***************************************************************************)
Bools == {Atom(0), Atom(1)}
Floats == {Float(0), Float(1), NaN}
\* struct TestStruct { distance: usize, silly: bool }
TestStructs == {Struct(<<x, y>>) : x \in Bools, y \in Bools}
\* enum TestEnum { First, Second, Struct { a: usize, b: bool } }
TestEnums ==
  {Enum(0, <<>>), Enum(1, <<>>)} \cup {Enum(2, <<x, y>>) : x \in Bools, y \in Bools}
\* Option<bool>: None is variant 0, Some(x) is variant 1
Options == {TEnum(0, <<>>)} \cup {TEnum(1, <<x>>) : x \in Bools}
\* Result<bool, bool>: Ok(x) is variant 0, Err(x) is variant 1
Results == {TEnum(0, <<x>>) : x \in Bools} \cup {TEnum(1, <<x>>) : x \in Bools}
\* struct { f: f64, b: bool }
FloatStructs == {Struct(<<x, y>>) : x \in Floats, y \in Bools}
\* (f64,)
FloatTuples == {Tuple(<<x>>) : x \in Floats}
SeqBools == {SeqV(s) : s \in SeqsUpTo(Bools, MaxLen)}
SeqFloats == {SeqV(s) : s \in SeqsUpTo(Floats, MaxNest)}
SeqStructs == {SeqV(s) : s \in SeqsUpTo(TestStructs, MaxNest)}
ShortSeqs == {SeqV(s) : s \in SeqsUpTo(Bools, MaxNest)}
\* struct { items: Vec<bool>, opt: Option<bool> }
NestedStructs == {Struct(<<x, y>>) : x \in ShortSeqs, y \in Options}
NewtypeStructs == {Newtype(x) : x \in TestStructs}
BMapBools ==
  UNION {{BMap(ks, vs) : vs \in SeqsOfLen(Bools, Len(ks))} : ks \in OrderedKeySeqs(MaxKey)}
BSets == {BSet(ks) : ks \in OrderedKeySeqs(MaxKey)}
HMapBools ==
  UNION {{HMap(ks, vs) : vs \in SeqsOfLen(Bools, Len(ks))} : ks \in HashedKeySeqs(MaxHKey)}
HSets == {HSet(ks) : ks \in HashedKeySeqs(MaxHElem)}
\* BTreeMap<u32, Option<bool>>
BMapOptions ==
  UNION {{BMap(ks, vs) : vs \in SeqsOfLen(Options, Len(ks))} : ks \in OrderedKeySeqs(MaxHKey)}
\* enum TestEnum { A, B { unit, size }, C(bool, usize) } with #[derive(Diff)]
DerivedEnums ==
  {DEnum(0, <<>>)} \cup {DEnum(1, <<x, y>>) : x \in Bools, y \in Bools}
    \cup {DEnum(2, <<x, y>>) : x \in Bools, y \in Bools}
\* struct TestTStruct(bool, bool) with #[derive(Diff)]
TupleStructs == {TStruct(<<x, y>>) : x \in Bools, y \in Bools}
\* a two-field struct whose Diff impl skips the fields of sk
SkipStructs(sk) == {SkipStruct(<<x, y>>, sk) : x \in Bools, y \in Bools}
\* a two-field tuple struct whose Diff impl skips the fields of sk
SkipTuples(sk) == {SkipTuple(<<x, y>>, sk) : x \in Bools, y \in Bools}

Types ==
  << Bools, Floats, {Unit}, {UnitStruct}, {Struct(<<>>)}, TestStructs, TestEnums,
     Options, Results, FloatStructs, FloatTuples, SeqBools, SeqFloats, SeqStructs,
     NestedStructs, NewtypeStructs, BMapBools, BSets, HMapBools, HSets, BMapOptions,
     DerivedEnums, TupleStructs,
     SkipStructs(<<1>>), SkipStructs(<<2>>), SkipStructs(<<1, 2>>),
     SkipTuples(<<1>>), SkipTuples(<<2>>), SkipTuples(<<1, 2>>) >>

\* the consumers: Detector<Any>, Detector<All>, DebugDiffer, ValueRecorder
Differs == {"Any", "All", "Debug", "Record"}

VARIABLES
  a,       \* left operand
  b,       \* right operand
  differ,  \* the consumer of this session
  pc,      \* "fmt" | "diff" | "walk" | "done"
  cur,     \* position of the Diff::diff implementation's loop(s)
  sub,     \* the sub-visitor returned by begin_*
  calls,   \* the calls made on the consumer and its sub-visitor, in order
  ret,     \* the boolean a detector returned
  sink,    \* the text written to the caller's formatter
  tree,    \* the Value record_diff returned
  fmt,     \* the caller's formatter, as the writes so far have left it
  res,     \* the fmt::Result of DebugDiff::fmt: "none" | "Ok" | "Err"
  stdout,  \* the lines printed on the process's standard output
  form,    \* the form of assert_eq_diff! used ("none": the macro is not)
  panic    \* the message of the panic raised (NoPanic: none)

vars == <<a, b, differ, pc, cur, sub, calls, ret, sink, tree, fmt, res,
          stdout, form, panic>>
(***************************************************************************)
(* The session.                                                            *)
(***************************************************************************)
\* no sub-visitor yet
NoSub == FALSE

\* everything but the consumer and its formatter
Start ==
  /\ \E t \in DOMAIN Types : a \in Types[t] /\ b \in Types[t]
  /\ pc = IF differ = "Debug" THEN "fmt" ELSE "diff"
  /\ cur = Cur0
  /\ sub = NoSub
  /\ calls = <<>>
  /\ ret = FALSE
  /\ sink = <<>>
  /\ tree = NoTree
  /\ res = "none"
  /\ stdout = <<>>
  /\ panic = NoPanic

\* the sink takes every write; the renderer is used with {:?} and with {:#?}
Init ==
  /\ differ \in Differs
  /\ \E alt \in (IF differ = "Debug" THEN BOOLEAN ELSE {FALSE}) :
       fmt = Formatter(0, alt)
  /\ form = "none"
  /\ Start

\* the value a terminal call or end returns goes to the caller: a detector's
\* boolean to ret, the renderer's text to the formatter
\* (lines: what a detector printed on the way)
Return(val, lines) ==
  CASE differ = "Debug" ->
         /\ fmt' = val.w
         /\ sink' = val.w.out
         /\ stdout' = val.w.printed
         /\ res' = IF val.ok THEN "Ok" ELSE "Err"
         /\ UNCHANGED <<ret, tree>>
    [] differ = "Record" -> tree' = val /\ UNCHANGED <<ret, sink, fmt, res, stdout>>
    [] OTHER ->
         /\ ret' = val
         /\ stdout' = stdout \o lines
         /\ UNCHANGED <<sink, tree, fmt, res>>

\* the writes of a builder go to the formatter it borrows
Written(s) ==
  IF differ = "Debug"
  THEN fmt' = s.w /\ sink' = s.w.out /\ stdout' = s.w.printed
  ELSE UNCHANGED <<fmt, sink, stdout>>

\* impl Debug for DebugDiff :: fmt, up to its call of Diff::diff
DebugDiffFmt ==
  LET Printed == [fmt EXCEPT !.printed = @ \o Detector_prints(a, b, "All")] IN
  /\ pc = "fmt"
  /\ IF all_different(a, b)
     THEN /\ calls' = Append(calls, Call("difference", 0, a, b, cur))
          /\ Return(DebugDiffer_difference(a, b, Printed), <<>>)
          /\ pc' = "done"
     ELSE /\ pc' = "diff"
          /\ fmt' = Printed
          /\ stdout' = Printed.printed
          /\ UNCHANGED <<calls, sink, res, ret, tree>>
  /\ UNCHANGED <<form, panic, a, b, differ, cur, sub>>

\* Diff::diff of an atomic, unit, newtype or variant-mismatched pair
DiffTerminal ==
  /\ pc = "diff"
  /\ ~IsBegin(FirstCall(a, b))
  /\ calls' = Append(calls, Call(FirstCall(a, b), 0, a, b, cur))
  /\ Return(Diff_diff_to(a, b, differ, fmt), Detector_prints(a, b, differ))
  /\ pc' = "done"
  /\ UNCHANGED <<form, panic, a, b, differ, cur, sub>>

\* Diff::diff of a composite pair: out.begin_*()
DiffBegin ==
  /\ pc = "diff"
  /\ IsBegin(FirstCall(a, b))
  /\ calls' = Append(calls, Call(FirstCall(a, b), 0, a, b, cur))
  /\ sub' = Differ_begin(differ, a, fmt)
  /\ Written(sub')
  /\ pc' = "walk"
  /\ UNCHANGED <<form, panic, a, b, differ, cur, ret, tree, res>>

\* one call on the sub-visitor
Deliver(nx) ==
  /\ nx.ev # "end"
  /\ calls' = Append(calls, nx)
  /\ sub' = Sub_on(differ, sub, nx)
  /\ cur' = nx.cur
  /\ Written(sub')
  /\ UNCHANGED <<form, panic, a, b, differ, pc, ret, tree, res>>

\* s.diff_field(..) of a struct, tuple or variant walk
DiffField ==
  /\ pc = "walk"
  /\ a.k \in FieldKinds
  /\ Deliver(FieldsNext(a, b, cur))

\* one iteration of the loop of the default SeqDiffer::diff_elements
DiffElements ==
  /\ pc = "walk"
  /\ a.k = "seq"
  /\ ~OverridesDiffElements(differ)
  /\ Deliver(DiffElementsNext(a, b, cur))

\* s.diff_elements(a, b) on SeqDetector, which overrides it
DetectorDiffElements ==
  /\ pc = "walk"
  /\ a.k = "seq"
  /\ OverridesDiffElements(differ)
  /\ Deliver(DiffElementsOverride(a, b, cur))

\* one iteration of the merge_join_by loop of BTreeMap / BTreeSet
MergeJoinStep ==
  /\ pc = "walk"
  /\ \/ a.k = "bmap" /\ Deliver(BTreeMapNext(a, b, cur))
     \/ a.k = "bmap" /\ Deliver(BTreeMapNext_peekable(a, b, cur))
     \/ a.k = "bset" /\ Deliver(BTreeSetNext(a, b, cur))

\* the next call of the loops of HashMap / HashSet
HashStep ==
  /\ pc = "walk"
  /\ \/ a.k = "hmap" /\ Deliver(HashMapNext(a, b, cur))
     \/ a.k = "hset" /\ Deliver(HashSetNext(a, b, cur))

\* out.end()
End ==
  /\ pc = "walk"
  /\ NextCall(a, b, cur, differ).ev = "end"
  /\ calls' = Append(calls, NextCall(a, b, cur, differ))
  /\ Return(Sub_end(differ, sub), Acc_prints(differ, sub))
  /\ pc' = "done"
  /\ UNCHANGED <<form, panic, a, b, differ, cur, sub>>

Next ==
  \/ DebugDiffFmt
  \/ DiffTerminal
  \/ DiffBegin
  \/ DiffField
  \/ DiffElements
  \/ DetectorDiffElements
  \/ MergeJoinStep
  \/ HashStep
  \/ End

Spec == Init /\ [][Next]_vars

\* the renderer on a sink that fails: its failAt-th write returns an error
InitSink ==
  /\ differ = "Debug"
  /\ \E n \in 1..MaxFail, alt \in BOOLEAN : fmt = Formatter(n, alt)
  /\ form = "none"
  /\ Start

NextSink ==
  \/ DebugDiffFmt
  \/ DiffTerminal
  \/ DiffBegin
  \/ DiffField
  \/ DiffElements
  \/ MergeJoinStep
  \/ HashStep
  \/ End

\* a call that has started runs on: the code is sequential and nothing in it
\* waits
SpecFair == Spec /\ WF_vars(Next)

SpecSink == InitSink /\ [][NextSink]_vars

\* a test that evaluates assert_eq_diff! on two values of one type
InitAssert ==
  /\ \E t \in DOMAIN Types : a \in Types[t] /\ b \in Types[t]
  /\ differ = "Debug"
  /\ fmt = Formatter(0, TRUE)
  /\ form \in Forms
  /\ pc = "assert"
  /\ cur = Cur0
  /\ sub = NoSub
  /\ calls = <<>>
  /\ ret = FALSE
  /\ sink = <<>>
  /\ tree = NoTree
  /\ res = "none"
  /\ stdout = <<>>
  /\ panic = NoPanic

\* the expansion of assert_eq_diff!: it returns or it panics
AssertEqDiff ==
  /\ pc = "assert"
  /\ panic' = assert_eq_diff(a, b, form).msg
  /\ stdout' = stdout \o assert_eq_diff(a, b, form).printed
  /\ pc' = IF panic' = NoPanic THEN "returned" ELSE "panicked"
  /\ UNCHANGED <<a, b, differ, form, cur, sub, calls, ret, sink, tree, fmt, res>>

NextAssert == AssertEqDiff

SpecAssert == InitAssert /\ [][NextAssert]_vars

(***************************************************************************)
(* What the properties below speak about.                                  *)
(***************************************************************************)
\* the calls Diff::diff(x, y, _) makes on a sub-visitor of consumer d
\* between begin_* and end, from loop position c on
RECURSIVE CallsFrom(_, _, _, _)
CallsFrom(x, y, c, d) ==
  LET nx == NextCall(x, y, c, d) IN
  IF nx.ev = "end" THEN <<>> ELSE <<nx>> \o CallsFrom(x, y, nx.cur, d)

\* the top-level parts of the pair (x, y): the per-position calls of a
\* traversal (a newtype has one part, its inner pair)
Parts(x, y) ==
  IF x.k = "newtype" THEN <<Call("diff_newtype", 0, x.c[1], y.c[1], Cur0)>>
  ELSE IF IsBegin(FirstCall(x, y))
  THEN SelectSeq(CallsFrom(x, y, Cur0, "Debug"), LAMBDA p : p.ev # "skip_field")
  ELSE <<>>

\* the part is present on both sides
OnBoth(p) == p.l.k # "none" /\ p.r.k # "none"

Excess(p) == ~OnBoth(p)

Done(d) == pc = "done" /\ differ = d

\* the calls made on the sub-visitor so far, begin_* and end left out
SubCalls ==
  IF calls # <<>> /\ IsBegin(calls[1].ev)
  THEN SubSeq(calls, 2, Len(calls) - (IF pc = "done" THEN 1 ELSE 0))
  ELSE <<>>

(***************************************************************************)
(* The properties.                                                         *)
(***************************************************************************)
\* C1: any_difference(v, v) is false for every comparable value v.
C1_AnyDifferenceReflexive ==
  (Done("Any") /\ a = b) => ret = FALSE

\* C2: all_different(v, v) is false for every comparable value v.
C2_AllDifferentIrreflexive ==
  (Done("All") /\ a = b) => ret = FALSE

\* the pair is a unit, or a composite whose sub-visitor observes no part
NoParts(x, y) ==
  \/ x.k \in {"unit", "ustruct"}
  \/ IsBegin(FirstCall(x, y)) /\ Parts(x, y) = <<>>

\* some top-level part is present on both sides and has no difference
SomePartEqual(x, y) ==
  \E i \in DOMAIN Parts(x, y) :
    OnBoth(Parts(x, y)[i]) /\ ~any_difference(Parts(x, y)[i].l, Parts(x, y)[i].r)

\* C3: all_different(a, b) is false when the pair has no observed top-level
\* part, and false when a top-level part present on both sides is equal.
C3_AllDifferentFalse ==
  Done("All") =>
    /\ NoParts(a, b) => ret = FALSE
    /\ SomePartEqual(a, b) => ret = FALSE

\* C3 witness: a map with an equal entry beside a differing entry and an
\* excess entry has been judged.
C3_Witness ==
  /\ Done("All")
  /\ a.k = "bmap"
  /\ SomePartEqual(a, b)
  /\ \E i \in DOMAIN Parts(a, b) : Excess(Parts(a, b)[i])
  /\ \E i \in DOMAIN Parts(a, b) :
       OnBoth(Parts(a, b)[i]) /\ any_difference(Parts(a, b)[i].l, Parts(a, b)[i].r)
  /\ ret = FALSE

\* C4: all_different(a, b) = true implies any_difference(a, b) = true.
C4_AllImpliesAny ==
  (Done("All") /\ ret = TRUE) => any_difference(a, b)

\* C4 witness: all_different returned true for a map with an excess entry.
C4_Witness ==
  /\ Done("All")
  /\ ret = TRUE
  /\ a.k = "bmap"
  /\ \E i \in DOMAIN Parts(a, b) : Excess(Parts(a, b)[i])

\* the traversal of (x, y) reports, at some depth, an atomic difference or
\* an excess entry
RECURSIVE ReportsDifference(_, _)
ReportsDifference(x, y) ==
  LET f == FirstCall(x, y) IN
  CASE f = "difference" -> TRUE
    [] f = "same" -> FALSE
    [] OTHER ->
         \E i \in DOMAIN Parts(x, y) :
           IF OnBoth(Parts(x, y)[i])
           THEN ReportsDifference(Parts(x, y)[i].l, Parts(x, y)[i].r)
           ELSE TRUE

\* C5: any_difference(a, b) is true iff the traversal reports, at some
\* depth, an atomic difference or an excess entry.
C5_AnyIsOrOfParts ==
  Done("Any") => (ret <=> ReportsDifference(a, b))

\* C5 witness: any_difference returned true for two sequences whose
\* common positions are equal and whose only difference is an excess element.
C5_Witness ==
  /\ Done("Any")
  /\ a.k = "seq"
  /\ Len(a.c) = 3 /\ Len(b.c) = 2
  /\ \A i \in 1..2 : a.c[i] = b.c[i]
  /\ ret = TRUE

\* the pair has an entry that is on one side only
HasExcess(x, y) == \E i \in DOMAIN Parts(x, y) : Excess(Parts(x, y)[i])

\* every entry present on both sides differs
AllSharedDiffer(x, y) ==
  \A i \in DOMAIN Parts(x, y) :
    OnBoth(Parts(x, y)[i]) => any_difference(Parts(x, y)[i].l, Parts(x, y)[i].r)

\* C6: for sequences, sets and maps with an excess entry, all_different is
\* true exactly when every entry present on both sides differs.
C6_ExcessCountsAsDiffering ==
  (Done("All") /\ a.k \in {"seq", "bset", "hset", "bmap", "hmap"} /\ HasExcess(a, b))
    => (ret <=> AllSharedDiffer(a, b))

\* the sub-visitor of this session was entered with begin_*
Begun == calls # <<>> /\ IsBegin(calls[1].ev)

ValueAt(m, k) == m.c[IndexOf(m.ks, k)]

\* the call p is the right one for its key, given the key sets of both sides
RightKind(p, KA, KB) ==
  /\ p.key \in KA \cup KB
  /\ p.ev \in {"diff_entry", "diff_equal"} <=> p.key \in KA \cap KB
  /\ p.ev = "only_in_left" <=> p.key \in KA \ KB
  /\ p.ev = "only_in_right" <=> p.key \in KB \ KA

\* a map call carries the values the two maps store under its key
RightValues(p, x, y) ==
  x.k \in {"bmap", "hmap"} =>
    /\ p.key \in Range(x.ks) => p.l = ValueAt(x, p.key)
    /\ p.key \in Range(y.ks) => p.r = ValueAt(y, p.key)

\* C8: ordered map / set pairing is a merge-join: one call per key of the
\* union, in strictly ascending key order, diff_entry / diff_equal iff the
\* key is on both sides, only_in_left / only_in_right iff on that side only.
C8_MergeJoinCalls ==
  (a.k \in {"bmap", "bset"} /\ Begun) =>
    LET sc == SubCalls
        KA == Range(a.ks)
        KB == Range(b.ks)
    IN /\ \A i \in DOMAIN sc : RightKind(sc[i], KA, KB) /\ RightValues(sc[i], a, b)
       /\ \A i, j \in DOMAIN sc : i < j => sc[i].key < sc[j].key
       /\ pc = "done" => {sc[i].key : i \in DOMAIN sc} = KA \cup KB

\* C8 witness: {0: true, 2: false} against {0: false, 1: false} has given
\* key 0 differing entry, key 1 right-only, key 2 left-only.
C8_Witness ==
  /\ pc = "done"
  /\ Begun
  /\ a = BMap(<<0, 2>>, <<Atom(1), Atom(0)>>)
  /\ b = BMap(<<0, 1>>, <<Atom(0), Atom(0)>>)
  /\ [i \in DOMAIN SubCalls |-> <<SubCalls[i].ev, SubCalls[i].key>>]
       = << <<"diff_entry", 0>>, <<"only_in_right", 1>>, <<"only_in_left", 2>> >>

\* C9: unordered map / set pairing reports every key of the union exactly
\* once, by the call that its membership asks for, and nothing else.
C9_HashPairingCalls ==
  (a.k \in {"hmap", "hset"} /\ Begun) =>
    LET sc == SubCalls
        KA == Range(a.ks)
        KB == Range(b.ks)
    IN /\ \A i \in DOMAIN sc : RightKind(sc[i], KA, KB) /\ RightValues(sc[i], a, b)
       /\ \A i, j \in DOMAIN sc : i # j => sc[i].key # sc[j].key
       /\ pc = "done" => {sc[i].key : i \in DOMAIN sc} = KA \cup KB

\* C9 witness: two hash sets that iterate in different orders and have a
\* shared, a left-only and a right-only element have been walked.
C9_Witness ==
  /\ pc = "done"
  /\ Begun
  /\ a.k = "hset"
  /\ a.ks = <<2, 0>> /\ b.ks = <<0, 1>>
  /\ {<<SubCalls[i].ev, SubCalls[i].key>> : i \in DOMAIN SubCalls}
       = { <<"diff_equal", 0>>, <<"only_in_left", 2>>, <<"only_in_right", 1>> }

\* how often token t occurs in the text s
Count(s, t) == Cardinality({i \in DOMAIN s : s[i] = t})

\* the markers the granularity rule asks for: one for a pair whose every
\* top-level part differs, else one per excess entry and, part by part, the
\* markers of the nested pairs
RECURSIVE Markers(_, _)
RECURSIVE MarkersOfParts(_, _)
Markers(x, y) ==
  IF all_different(x, y) THEN 1 ELSE MarkersOfParts(Parts(x, y), 1)

MarkersOfParts(ps, i) ==
  IF i > Len(ps) THEN 0
  ELSE (IF OnBoth(ps[i]) THEN Markers(ps[i].l, ps[i].r) ELSE 1)
       + MarkersOfParts(ps, i + 1)

\* C10: when render_diff(a, b) is formatted and all_different(a, b) holds,
\* the output is one DIFF marker with the full left and right value and no
\* sub-visitor is entered; otherwise the structure is traversed and the same
\* rule applies to every nested pair, so that markers stand only at differing
\* leaves, excess entries and subtrees whose every top-level part differs.
C10_RenderingGranularity ==
  Done("Debug") =>
    /\ all_different(a, b) =>
         /\ sink = IF fmt.alt
                   THEN DIFF(a, b, Formatter(0, TRUE)).w.out
                   ELSE <<"DIFF", "{", "L", ":">> \o Fmt(a)
                          \o <<",", "R", ":">> \o Fmt(b) \o <<"}">>
         /\ ~Begun
    /\ ~all_different(a, b) =>
         /\ calls[1].ev = FirstCall(a, b)
         /\ Begun =>
              Len(SelectSeq(SubCalls, LAMBDA p : p.ev # "skip_field"))
                = Len(Parts(a, b))
         /\ sink[1] # "DIFF"
    /\ Count(sink, "DIFF") = Markers(a, b)

\* C10 witness: a sequence of structs was rendered whose first elements
\* differ in every field and whose second elements are equal.
C10_Witness ==
  /\ Done("Debug")
  /\ a.k = "seq"
  /\ Len(a.c) = 2 /\ Len(b.c) = 2
  /\ a.c[1].k = "struct"
  /\ all_different(a.c[1], b.c[1])
  /\ a.c[2] = b.c[2]
  /\ Count(sink, "DIFF") = 1

\* C11: formatting debug_diff(v, v) gives exactly the text of v's own Debug
\* rendering, for every value v.
C11_RenderingReflexive ==
  (Done("Debug") /\ a = b) => sink = (IF fmt.alt THEN FmtPretty(a) ELSE Fmt(a))

\* the fields of a recorded Struct or Tuple node are the nested comparisons of
\* the fields of x and y, one per field, in declaration order
FieldsRecorded(node, x, y) ==
  /\ Len(node.fields) = Len(x.c)
  /\ \A i \in DOMAIN x.c :
       LET val == <<Diff_diff(x.c[i], y.c[i], "Record")>> IN
       IF node.t = "Struct"
       THEN node.fields[i] = [name |-> FieldNames[i], val |-> val]
       ELSE node.fields[i] = val

\* C12: recording two values of one enum that use the same non-unit variant
\* gives an Enum node with the enum's type name, whose variant is a Struct
\* (named fields) or Tuple (unnamed fields) node named after the variant, with
\* one entry per field in declaration order.
C12_SameVariantRecordsEnum ==
  (Done("Record") /\ a.k \in {"enum", "tenum", "denum"} /\ a.n = b.n /\ Len(a.c) > 0) =>
    /\ tree.t = "Enum"
    /\ tree.name = EnumName(a)
    /\ tree.variant.t = (IF IsNamed(a) THEN "Struct" ELSE "Tuple")
    /\ tree.variant.name = <<VariantNames[a.n + 1]>>
    /\ FieldsRecorded(tree.variant, a, b)

\* a and b are values of one enum type that use different variants
VariantsDiffer == a.k \in {"enum", "tenum", "denum"} /\ a.n # b.n

\* C13: comparing two values of one enum whose variants differ makes exactly
\* one call on the consumer, difference(a, b) over the whole values, and no
\* begin_* call; record_diff returns a Difference leaf with the Debug text of
\* both values.
C13_VariantMismatchIsDifference ==
  VariantsDiffer =>
    /\ \A i \in DOMAIN calls : calls[i].ev = "difference"
    /\ pc = "done" => calls = <<Call("difference", 0, a, b, Cur0)>>
    /\ Done("Record") => tree = [t |-> "Difference", l |-> Fmt(a), r |-> Fmt(b)]

\* C13 witness: a unit variant was recorded against a variant with named
\* fields of the same derived enum.
C13_Witness ==
  /\ Done("Record")
  /\ a = DEnum(0, <<>>)
  /\ b.k = "denum" /\ b.n = 1
  /\ tree.t = "Difference"
  /\ tree.l = <<"V0">>

\* the Value holds a Difference leaf or a LeftOnly / RightOnly element
RECURSIVE HasDifference(_)
HasDifference(v) ==
  LET InElement(el) == el.e # "Both" \/ HasDifference(el.v) IN
  CASE v.t = "Difference" -> TRUE
    [] v.t = "Same" -> FALSE
    [] v.t = "Newtype" -> HasDifference(v.val)
    [] v.t = "Enum" -> HasDifference(v.variant)
    [] v.t = "Struct" ->
         \E i \in DOMAIN v.fields :
           v.fields[i].val # <<>> /\ HasDifference(v.fields[i].val[1])
    [] v.t = "Tuple" ->
         \E i \in DOMAIN v.fields :
           v.fields[i] # <<>> /\ HasDifference(v.fields[i][1])
    [] v.t \in {"Sequence", "Set"} -> \E i \in DOMAIN v.elems : InElement(v.elems[i])
    [] v.t = "Map" -> \E i \in DOMAIN v.elems : InElement(v.elems[i].el)

\* C14: the tree record_diff(v, v) returns has no Difference leaf and no
\* LeftOnly or RightOnly element at any depth.
C14_RecordingIdempotent == (Done("Record") /\ a = b) => ~HasDifference(tree)


\* the failing write of the sink has been attempted
SinkFailed == fmt.failAt > 0 /\ fmt.att >= fmt.failAt

\* C15: when a write to the sink fails during the formatting of
\* render_diff(a, b), fmt returns the error, and no write is made (or
\* attempted) after the first one that failed.
C15_SinkFailurePropagates ==
  (differ = "Debug" /\ fmt.failAt > 0) =>
    /\ fmt.att <= fmt.failAt
    /\ sink = fmt.out
    /\ Len(sink) = Min(fmt.att, fmt.failAt - 1)
    /\ (pc = "done" /\ SinkFailed) => res = "Err"
    /\ (pc = "done" /\ ~SinkFailed) => res = "Ok"

\* C15 witness: the second write failed while a sub-visitor was open, at
\* least two more calls followed on it, and fmt returned the error.
C15_Witness ==
  /\ Done("Debug")
  /\ fmt.failAt = 2
  /\ Begun
  /\ Len(calls) >= 4
  /\ res = "Err"
  /\ Len(sink) = 1

\* s occurs in t as a run of consecutive tokens
Embeds(t, s) ==
  \E i \in 0..(Len(t) - Len(s)) : SubSeq(t, i + 1, i + Len(s)) = s

\* C16: assert_eq_diff!(left, right [, message...]) panics if and only if
\* `left == right` is false; the panic message embeds the pretty-mode
\* rendering of the difference and, in the form with extra arguments, the
\* caller's formatted message; when the values are equal nothing happens;
\* the trailing-comma form behaves like the two-argument form.
C16_AssertEqDiff ==
  pc \in {"returned", "panicked"} =>
    /\ (pc = "panicked") <=> ~PartialEq(a, b)
    /\ pc = "panicked" =>
         /\ Embeds(panic, DebugDiff_fmt(a, b, Formatter(0, TRUE)).w.out)
         /\ form = "message" => Embeds(panic, CallerMessage)
         /\ form # "message" => ~Embeds(panic, CallerMessage)
    /\ pc = "returned" => panic = NoPanic /\ stdout = <<>> /\ sink = <<>>
    /\ form = "comma" => panic = assert_eq_diff(a, b, "plain").msg

\* C16 witness: the form with a message panicked on two structs that differ
\* in one field, and the message holds the rendering over several lines.
C16_Witness ==
  /\ pc = "panicked"
  /\ form = "message"
  /\ a.k = "struct"
  /\ ~all_different(a, b)
  /\ Embeds(panic, <<"\n", "    ", "f1", ":", "DIFF", "{", "\n">>)

\* C16 witness: the trailing-comma form returned on equal values.
C16_WitnessEqual == pc = "returned" /\ form = "comma" /\ Len(a.c) = 2

\* C19: any_difference and all_different are pure: they write to no output
\* stream (and a call returns what every other call on the same values does).
C19_DetectorsPure ==
  (differ \in {"Any", "All"}) =>
    /\ stdout = <<>>
    /\ pc = "done" => ret = Diff_diff(a, b, differ)

\* the types whose walk is derived code or a built-in tuple impl
DerivedKinds == {"struct", "tuple", "denum", "tstruct"}

\* C17: every struct, struct-variant, tuple and tuple-variant walk (derived
\* code and the built-in tuple impls) calls the sub-visitor's field method
\* exactly once per declared field, in declaration order, with the left and
\* the right value of that same field, and then calls end.
C17_FieldWalk ==
  (Begun /\ a.k \in DerivedKinds) =>
    /\ Len(calls) <= Len(a.c) + 2
    /\ \A i \in 1..Len(a.c) :
         (i + 1 <= Len(calls)) =>
           /\ calls[i + 1].ev = "diff_field"
           /\ calls[i + 1].key = i
           /\ calls[i + 1].l = a.c[i]
           /\ calls[i + 1].r = b.c[i]
    /\ (Len(calls) = Len(a.c) + 2) <=> (pc = "done")
    /\ pc = "done" => calls[Len(calls)].ev = "end"

\* C17 witness: the walk of a tuple variant of a derived enum, whose two fields
\* hold different values on the two sides, has ended.
C17_Witness ==
  /\ pc = "done"
  /\ a.k = "denum" /\ a.n = 2 /\ b.n = 2
  /\ a.c[1] # a.c[2]
  /\ b.c[1] # a.c[1]
  /\ Len(calls) = 4

\* the Option<Value> of the i-th entry of a recorder's field list
FieldValue(s, i) == IF s.rec = "struct" THEN s.fields[i].val ELSE s.fields[i]

\* the Struct or Tuple node of a recorded tree
FieldsNode == IF tree.t = "Enum" THEN tree.variant ELSE tree

\* C18: in the tree recorder the field list of a Struct or Tuple node is
\* exactly the sequence of diff_field and skip_field calls made on the
\* sub-visitor, in call order: a diff_field call records Some(tree of the
\* nested comparison), a skip_field call records None.
C18_RecorderFieldList ==
  (differ = "Record" /\ Begun /\ a.k \in FieldKinds) =>
    /\ Len(sub.fields) = Len(SubCalls)
    /\ \A i \in DOMAIN SubCalls :
         /\ SubCalls[i].ev = "skip_field" => FieldValue(sub, i) = <<>>
         /\ SubCalls[i].ev = "diff_field" =>
              FieldValue(sub, i) = <<Diff_diff(SubCalls[i].l, SubCalls[i].r, "Record")>>
         /\ sub.rec = "struct" => sub.fields[i].name = FieldNames[SubCalls[i].key]
    /\ pc = "done" => FieldsNode.fields = sub.fields

\* C18 witness: a struct whose second field is skipped, and differs on the two
\* sides, was recorded with its first field compared and its second None.
C18_Witness ==
  /\ Done("Record")
  /\ a.k = "sstruct" /\ a.ks = <<2>>
  /\ a.c[2] # b.c[2]
  /\ tree.t = "Struct"
  /\ tree.fields[1].val # <<>>
  /\ tree.fields[2].val = <<>>

\* the size of a value: itself, its keys and everything nested in it
RECURSIVE Size(_)
RECURSIVE SizeOfAll(_)
SizeOfAll(xs) == IF xs = <<>> THEN 0 ELSE Size(Head(xs)) + SizeOfAll(Tail(xs))

Size(x) == 1 + Len(x.ks) + SizeOfAll(x.c)

\* what is left to visit: the positions the two iterators have not passed
\* (the first loops of the HashSet impl pass over the left set twice; a
\* sub-visitor that overrides diff_elements takes the two sequences whole)
Remaining ==
  IF a.k = "seq" /\ OverridesDiffElements(differ) THEN 2 - cur.i ELSE
  (IF a.k = "hset" THEN 2 * Len(a.ks) ELSE Max(Len(a.c), Len(a.ks))) + 1 - cur.i
    + Max(Len(b.c), Len(b.ks)) + 1 - cur.j

\* a step of a walk moves no iterator back and moves at least one forward
Advances ==
  (pc = "walk" /\ pc' = "walk") =>
    /\ cur'.i >= cur.i
    /\ cur'.j >= cur.j
    /\ cur'.i + cur'.j > cur.i + cur.j

\* every value handed on to a nested comparison is strictly smaller than the
\* value it is taken from
Descends ==
  \A i \in DOMAIN SubCalls :
    SubCalls[i].ev \notin {"skip_field", "diff_elements"} =>
      /\ SubCalls[i].l # NoValue => Size(SubCalls[i].l) < Size(a)
      /\ SubCalls[i].r # NoValue => Size(SubCalls[i].r) < Size(b)

\* C20: every comparison of two finite values terminates with a result: each
\* nested comparison is of strictly smaller values, each step of a sequence
\* pairing consumes one position, each merge-join step advances at least one
\* of the two iterators (the hand-written merge of the root crate steps as
\* merge_join_by does), and the walk ends.
C20_Terminates ==
  /\ [](Descends /\ (pc = "walk" => Remaining >= 0))
  /\ []((pc = "walk" /\ a.k = "bmap") =>
          BTreeMapNext_peekable(a, b, cur) = BTreeMapNext(a, b, cur))
  /\ [][Advances]_vars
  /\ <>(pc = "done")

\* C20 witness: the merge of two ordered maps that reported an entry only in
\* the left map, one in both and one only in the right map has ended.
C20_Witness ==
  /\ pc = "done"
  /\ a.k = "bmap"
  /\ Len(calls) = 5
  /\ calls[2].ev = "only_in_left"
  /\ calls[3].ev = "diff_entry"
  /\ calls[4].ev = "only_in_right"
  /\ calls[5].ev = "end"

(***************************************************************************)
(* Sessions.  Every consumer has an identity: <<>> for the one the caller  *)
(* made, Append(id, i) for one made while call i of session id runs.  An   *)
(* event is a method called on a consumer or on the sub-visitor it gave.   *)
(***************************************************************************)
\* the methods of Differ; each takes `self` by value
DifferMethods ==
  {"same", "difference", "diff_newtype", "begin_struct", "begin_struct_variant",
   "begin_tuple", "begin_tuple_variant", "begin_seq", "begin_map", "begin_set"}

Event(id, d, ev) == [id |-> id, d |-> d, ev |-> ev]

\* faulty variant of NewtypeConsumer: every diff_newtype hands its own
\* consumer on
NewtypeConsumer_enclosing(d, id) == id

\* the consumer diff_newtype gives to Diff::diff of the wrapped pair:
\* Detector passes itself on (Diff::diff(a, b, self)); ValueRecorder makes a
\* ValueRecorder, and DebugDiff::fmt a DebugDiffer
NewtypeConsumer(d, id) == IF d \in {"Any", "All"} THEN id ELSE Append(id, 1)

RECURSIVE Sessions(_, _, _, _)
RECURSIVE WalkSessions(_, _, _, _, _, _, _)
RECURSIVE ConsiderAllSessions(_, _, _, _, _, _)

\* impl Debug for DebugDiff :: fmt: the detector of all_different, then a
\* DebugDiffer, which is id
DebugDiffSessions(x, y, id) ==
  Sessions(x, y, "All", Append(id, 0))
    \o (IF all_different(x, y)
        THEN <<Event(id, "Debug", "difference")>>
        ELSE Sessions(x, y, "Debug", id))

\* Accumulator::consider_all from position i on: Any's `any` stops at the
\* first difference, All's fold compares while s.all holds
ConsiderAllSessions(A, s, left, right, i, nid) ==
  LET ab == ZipLongest(left, right, i) IN
  IF ab = "None" THEN <<>>
  ELSE IF A = "Any" THEN
    IF ab = "Both"
    THEN Sessions(left[i], right[i], "Any", Append(nid, i))
           \o (IF any_difference(left[i], right[i]) THEN <<>>
               ELSE ConsiderAllSessions(A, s, left, right, i + 1, nid))
    ELSE <<>>
  ELSE IF ab = "Both"
  THEN (IF s.all THEN Sessions(left[i], right[i], "Any", Append(nid, i)) ELSE <<>>)
         \o ConsiderAllSessions(A,
              [all |-> s.all /\ any_difference(left[i], right[i]), any |-> TRUE],
              left, right, i + 1, nid)
  ELSE ConsiderAllSessions(A, [all |-> FALSE, any |-> TRUE], left, right, i + 1, nid)

\* the comparisons one call on a sub-visitor in state s starts
NestedSessions(d, s, nx, nid) ==
  CASE nx.ev \in {"diff_field", "diff_element", "diff_entry", "diff_equal"} ->
         (CASE d = "Record" -> Sessions(nx.l, nx.r, "Record", nid)
            [] d = "Debug" -> DebugDiffSessions(nx.l, nx.r, nid)
            [] d = "Any" -> IF ~s THEN Sessions(nx.l, nx.r, "Any", nid) ELSE <<>>
            [] d = "All" -> IF s.all THEN Sessions(nx.l, nx.r, "Any", nid) ELSE <<>>)
    [] nx.ev = "diff_elements" ->
         IF (d = "Any" /\ ~s) \/ (d = "All" /\ s.all)
         THEN ConsiderAllSessions(d, s, nx.l.c, nx.r.c, 1, nid)
         ELSE <<>>
    [] OTHER -> <<>>

\* the rest of a walk, from call number i of session id on
WalkSessions(x, y, c, s, d, id, i) ==
  LET nx == NextCall(x, y, c, d) IN
  IF nx.ev = "end" THEN <<Event(id, d, "end")>>
  ELSE <<Event(id, d, nx.ev)>>
         \o NestedSessions(d, s, nx, Append(id, i))
         \o WalkSessions(x, y, nx.cur,
                         IF d \in {"Any", "All"} THEN Detector_on(d, s, nx) ELSE s,
                         d, id, i + 1)

\* Diff::diff(x, y, out), out the consumer id of kind d: every method called,
\* on out and on every consumer made on the way, in order
Sessions(x, y, d, id) ==
  LET f == FirstCall(x, y) IN
  CASE f \in {"same", "difference"} -> <<Event(id, d, f)>>
    [] f = "diff_newtype" ->
         <<Event(id, d, f)>>
           \o (IF d = "Debug"
               THEN DebugDiffSessions(x.c[1], y.c[1], NewtypeConsumer(d, id))
               ELSE Sessions(x.c[1], y.c[1], d, NewtypeConsumer(d, id)))
    [] OTHER ->
         <<Event(id, d, f)>>
           \o WalkSessions(x, y, Cur0,
                           IF d \in {"Any", "All"} THEN Acc_default(d) ELSE NoSub,
                           d, id, 1)

\* the events of the comparison of a and b with the consumer of this session
Trace ==
  IF differ = "Debug" THEN DebugDiffSessions(a, b, <<>>)
  ELSE Sessions(a, b, differ, <<>>)

\* the events on consumer id
EventsOn(t, id) == SelectSeq(t, LAMBDA e : e.id = id)

\* one consumer, used up by one method of Differ; after begin_* the calls on
\* the sub-visitor, then one end, then nothing
LinearSession(es) ==
  /\ es[1].ev \in DifferMethods
  /\ \A j \in 2..Len(es) : es[j].ev \notin DifferMethods
  /\ IF IsBegin(es[1].ev)
     THEN /\ es[Len(es)].ev = "end"
          /\ \A j \in 1..(Len(es) - 1) : es[j].ev # "end"
     ELSE Len(es) = 1

\* the events on a consumer after the detector's diff_newtype handed it on
RECURSIVE HandedOn(_)
HandedOn(es) ==
  IF Len(es) > 1 /\ es[1].ev = "diff_newtype" /\ es[1].d \in {"Any", "All"}
  THEN HandedOn(Tail(es))
  ELSE es

\* the calls of this session so far are the first events on its consumer
CallsAreSession(t) ==
  LET es == EventsOn(t, <<>>) IN
  /\ Len(calls) <= Len(es)
  /\ \A i \in DOMAIN calls : calls[i].ev = es[i].ev
  /\ pc = "done" => Len(calls) = Len(es) \/ es[1].ev = "diff_newtype"

C21_LinearSessions ==
  LET t == Trace IN
  /\ CallsAreSession(t)
  /\ pc = "done" =>
       \A id \in {t[i].id : i \in DOMAIN t} : LinearSession(HandedOn(EventsOn(t, id)))

\* C21 witness: a detector compared two newtypes of structs: the detector was
\* handed on by diff_newtype, began a struct, and its sub-visitor was ended.
C21_Witness ==
  /\ Done("All")
  /\ a.k = "newtype"
  /\ LET t == Trace IN
     /\ Len(EventsOn(t, <<>>)) > 3
     /\ t[1].ev = "diff_newtype"
     /\ t[2].ev = "begin_struct"
     /\ t[Len(t)] = Event(<<>>, "All", "end")

\* one call on a sub-visitor whose accumulator compares every part and
\* accumulates it, whatever it has seen: Any by `or`, All by `and`
Unguarded_on(A, s, call) ==
  CASE call.ev \in {"diff_field", "diff_element", "diff_entry", "diff_equal"} ->
         IF A = "Any" THEN s \/ any_difference(call.l, call.r)
         ELSE [all |-> s.all /\ any_difference(call.l, call.r), any |-> TRUE]
    [] call.ev = "diff_elements" ->
         IF A = "Any"
         THEN s \/ \E i \in 1..Max(Len(call.l.c), Len(call.r.c)) :
                     ZipLongest(call.l.c, call.r.c, i) = "Both"
                       => any_difference(call.l.c[i], call.r.c[i])
         ELSE All_fold(s, call.l.c, call.r.c, 1)
    [] call.ev \in {"left_excess", "right_excess", "only_in_left", "only_in_right"} ->
         Acc_diff(A, s)
    [] call.ev = "skip_field" -> s

\* the accumulator after the calls cs[i], cs[i + 1], ..., none of them guarded
RECURSIVE UnguardedFold(_, _, _, _)
UnguardedFold(A, s, cs, i) ==
  IF i > Len(cs) THEN s
  ELSE UnguardedFold(A, Unguarded_on(A, s, cs[i]), cs, i + 1)

\* C22: short-circuiting never changes the detector's result: after any
\* sequence of calls on a detector's sub-visitor the boolean its end would
\* return (and, once ended, the boolean it returned) is the one obtained when
\* every part is compared and accumulated without a guard.
C22_ShortCircuitSound ==
  (differ \in {"Any", "All"} /\ Begun) =>
    LET unguarded ==
          Acc_into_bool(differ, UnguardedFold(differ, Acc_default(differ), SubCalls, 1))
    IN /\ Acc_into_bool(differ, sub) = unguarded
       /\ pc = "done" => ret = unguarded

\* C22 witness: a guard skipped a comparison that would have found a
\* difference: Any had seen a difference before it, All an equal part.
C22_Witness ==
  /\ pc = "done"
  /\ Len(SubCalls) >= 2
  /\ SubCalls[1].ev = "diff_field"
  /\ SubCalls[2].ev = "diff_field"
  /\ any_difference(SubCalls[2].l, SubCalls[2].r)
  /\ \/ differ = "Any" /\ any_difference(SubCalls[1].l, SubCalls[1].r) /\ ret = TRUE
     \/ differ = "All" /\ ~any_difference(SubCalls[1].l, SubCalls[1].r) /\ ret = FALSE

\* SeqDiffer::diff_elements as the trait provides it, on a detector's
\* sub-visitor in state s: diff_element, left_excess and right_excess, one
\* position at a time from c on
RECURSIVE DefaultDiffElements(_, _, _, _, _)
DefaultDiffElements(A, s, x, y, c) ==
  LET nx == DiffElementsNext(x, y, c) IN
  IF nx.ev = "end" THEN s
  ELSE DefaultDiffElements(A, Detector_on(A, s, nx), x, y, nx.cur)

\* C23: the detector's own diff_elements is the convenience method the trait
\* documents: for both accumulators it leaves the sub-visitor of a sequence
\* pair with the same final boolean as the trait's default diff_elements.
C23_OverrideIsDefault ==
  (differ \in {"Any", "All"} /\ a.k = "seq" /\ Begun /\ Len(SubCalls) = 1) =>
    /\ SubCalls[1].ev = "diff_elements"
    /\ Acc_into_bool(differ, sub)
         = Acc_into_bool(differ, DefaultDiffElements(differ, Acc_default(differ), a, b, Cur0))

\* the tokens of a text that are not layout: {:#?} adds newlines, indentation
\* and trailing commas, {:?} separating commas
Strip(t) == SelectSeq(t, LAMBDA tok : tok \notin {"\n", "    ", ","})

\* the calls that report an entry with a missing counterpart
LeftExcess == {"left_excess", "only_in_left"}
RightExcess == {"right_excess", "only_in_right"}

\* the two-column marker of an entry with a missing counterpart
ExcessMarker(call) ==
  IF call.ev \in LeftExcess
  THEN <<"DIFF", "{", "L", ":">> \o Strip(Fmt(call.l)) \o <<"R", ":", "(missing)", "}">>
  ELSE <<"DIFF", "{", "L", ":", "(missing)", "R", ":">> \o Strip(Fmt(call.r)) \o <<"}">>

\* the entries the calls cs[i], cs[i + 1], ... on the builder of a sequence,
\* set or map (keyed) are to show
RECURSIVE EntriesText(_, _, _)
EntriesText(cs, i, keyed) ==
  IF i > Len(cs) THEN <<>>
  ELSE (IF keyed THEN <<Str(cs[i].key), ":">> ELSE <<>>)
         \o (IF cs[i].ev \in LeftExcess \cup RightExcess
             THEN ExcessMarker(cs[i])
             ELSE Strip(DebugDiff_fmt(cs[i].l, cs[i].r, Formatter(0, FALSE)).w.out))
         \o EntriesText(cs, i + 1, keyed)

\* C24: in the text renderer an entry of a sequence, set or map with a
\* missing counterpart is the marker DIFF { L, R } with `(missing)` on the
\* missing side and the value on the other, never swapped; in a map it is
\* the value under the entry's key.
C24_MissingPlaceholder ==
  (differ = "Debug" /\ Begun /\ a.k \in {"seq", "bset", "hset", "bmap", "hmap"}) =>
    Strip(sink) = (IF a.k = "seq" THEN <<"[">> ELSE <<"{">>)
                    \o EntriesText(SubCalls, 1, a.k \in {"bmap", "hmap"})
                    \o (IF pc # "done" THEN <<>>
                        ELSE IF a.k = "seq" THEN <<"]">> ELSE <<"}">>)

\* C24 witness: a map was rendered with an entry only on the left and an
\* entry only on the right.
C24_Witness ==
  /\ Done("Debug")
  /\ a.k = "bmap"
  /\ \E i, j \in DOMAIN SubCalls :
       /\ SubCalls[i].ev = "only_in_left"
       /\ SubCalls[j].ev = "only_in_right"
  /\ Count(sink, "(missing)") = 2

\* C24 witness: a sequence was rendered with an excess element on the right.
C24_WitnessSeq ==
  /\ Done("Debug")
  /\ a.k = "seq"
  /\ fmt.alt
  /\ \E i \in DOMAIN SubCalls : SubCalls[i].ev = "right_excess"

\* every state an accumulator of type A can be in
AccStates(A) == IF A = "Any" THEN BOOLEAN ELSE [all : BOOLEAN, any : BOOLEAN]

\* s1 follows s0 monotonically: the flag of Any and `any` of All do not go
\* from true to false, `all` of All does not go from false to true
AccMonotone(A, s0, s1) ==
  IF A = "Any" THEN s0 => s1
  ELSE (s0.any => s1.any) /\ (s1.all => s0.all)

\* one step of a session on a detector leaves its accumulator as C25 asks
AccumulatorStep ==
  differ \in {"Any", "All"} =>
    /\ (pc = "diff" /\ pc' = "walk") =>
         sub' = (IF differ = "Any" THEN FALSE ELSE [all |-> TRUE, any |-> FALSE])
    /\ (pc = "walk" /\ pc' = "walk") =>
         /\ AccMonotone(differ, sub, sub')
         /\ \A s \in AccStates(differ) :
              AccMonotone(differ, s, Detector_on(differ, s, calls'[Len(calls')]))

\* C25: within a session the flag of Any never goes from true to false,
\* `all` of All never from false to true and `any` of All never from true to
\* false, whatever the call; a fresh All is (all = true, any = false) and a
\* fresh Any is false.
C25_AccumulatorsMonotone == [][AccumulatorStep]_vars

\* C25 witness: `all` of an All went to false and a further call was made on
\* the accumulator.
C25_Witness ==
  /\ differ = "All"
  /\ pc = "walk"
  /\ Len(calls) >= 3
  /\ ~Detector_on("All", All_default, calls[2]).all
  /\ ~sub.all /\ sub.any
  /\ calls[Len(calls)].ev \in {"diff_field", "diff_entry", "diff_element"}
  /\ any_difference(calls[Len(calls)].l, calls[Len(calls)].r)

(***************************************************************************)
(* The root crate (src/lib.rs, src/detect.rs): the older Diff, Differ and   *)
(* detector.                                                               *)
(***************************************************************************)
\* impl Diff for bool / usize on Detector: difference -> Ok(true), same ->
\* Ok(false)
Root_Detector_diff(x, y) == x.n # y.n

\* SeqDetector(bool) :: diff_element
Root_SeqDetector_diff_element(s, l, r) == IF ~s THEN Root_Detector_diff(l, r) ELSE s

\* a.into_iter().zip(b.into_iter()): the pairs it yields, from position i on
RECURSIVE Root_zip(_, _, _)
Root_zip(left, right, i) ==
  IF i > Len(left) \/ i > Len(right) THEN <<>>
  ELSE <<(<<left[i], right[i]>>)>> \o Root_zip(left, right, i + 1)

\* the default SeqDiffer::diff_elements: diff_element for every pair of the zip
RECURSIVE Root_diff_elements(_, _, _)
Root_diff_elements(s, ps, i) ==
  IF i > Len(ps) THEN s
  ELSE Root_diff_elements(Root_SeqDetector_diff_element(s, ps[i][1], ps[i][2]), ps, i + 1)

\* begin_seq(), diff_elements(a, b), end() on the root crate's Detector
Root_seq_difference(x, y) == Root_diff_elements(FALSE, Root_zip(x.c, y.c, 1), 1)

\* C26: the root crate's default diff_elements pairs by position up to
\* max(len(a), len(b)), so that its detector reports a difference for two
\* sequences of different length whose common prefix is equal.
C26_RootZipLongest ==
  (a \in SeqBools /\ b \in SeqBools) =>
    /\ Len(Root_zip(a.c, b.c, 1)) = Max(Len(a.c), Len(b.c))
    /\ (/\ Len(a.c) # Len(b.c)
        /\ \A i \in 1..Min(Len(a.c), Len(b.c)) : a.c[i] = b.c[i])
         => Root_seq_difference(a, b)

\* C27: detection is symmetric in its operands: any_difference(a, b) =
\* any_difference(b, a) and all_different(a, b) = all_different(b, a), and
\* the boolean a detector's session returns is the one the swapped operands
\* give.
C27_DetectionSymmetric ==
  /\ any_difference(a, b) = any_difference(b, a)
  /\ all_different(a, b) = all_different(b, a)
  /\ Done("Any") => ret = any_difference(b, a)
  /\ Done("All") => ret = all_different(b, a)

\* C27 witness: a detector's session ended on two maps, the left without
\* entries, the right with one.
C27_Witness ==
  /\ pc = "done"
  /\ differ \in {"Any", "All"}
  /\ a.k \in {"bmap", "hmap"}
  /\ a.ks = <<>>
  /\ b.ks # <<>>
  /\ calls[Len(calls) - 1].ev = "only_in_right"

\* C28: the tree record_diff(a, b) returns holds a Difference leaf or a
\* LeftOnly / RightOnly element at some depth exactly if any_difference(a, b)
\* is true; a skipped field counts for neither.
C28_RecorderAgreesWithDetector ==
  /\ Done("Record") => (HasDifference(tree) <=> any_difference(a, b))
  /\ Done("Any") => (ret <=> HasDifference(Record_diff(a, b)))

\* C28 witness: two structs that differ in a skipped field only were
\* recorded, and the tree holds no difference.
C28_Witness ==
  /\ Done("Record")
  /\ a.k \in {"sstruct", "stuple"}
  /\ a # b
  /\ ~HasDifference(tree)

\* C28 witness: two maps with an entry on the right only were recorded.
C28_WitnessExcess ==
  /\ Done("Record")
  /\ a.k = "hmap"
  /\ \A i \in DOMAIN a.ks : \E j \in DOMAIN b.ks : a.ks[i] = b.ks[j] /\ a.c[i] = b.c[j]
  /\ Len(b.ks) > Len(a.ks)
  /\ HasDifference(tree)

\* BTreeSet in the root crate: a hand-written merge over two peekable
\* iterators, then the rest of the left elements, then the rest of the right
Root_BTreeSetNext(x, y, c) ==
  IF c.i <= Len(x.ks) /\ c.j <= Len(y.ks) THEN
    CASE x.ks[c.i] < y.ks[c.j] ->
           Call("only_in_left", x.ks[c.i], Atom(x.ks[c.i]), NoValue, [c EXCEPT !.i = @ + 1])
      [] x.ks[c.i] = y.ks[c.j] ->
           Call("diff_equal", x.ks[c.i], Atom(x.ks[c.i]), Atom(y.ks[c.j]),
                [i |-> c.i + 1, j |-> c.j + 1])
      [] OTHER ->
           Call("only_in_right", y.ks[c.j], NoValue, Atom(y.ks[c.j]), [c EXCEPT !.j = @ + 1])
  ELSE IF c.i <= Len(x.ks) THEN
    Call("only_in_left", x.ks[c.i], Atom(x.ks[c.i]), NoValue, [c EXCEPT !.i = @ + 1])
  ELSE IF c.j <= Len(y.ks) THEN
    Call("only_in_right", y.ks[c.j], NoValue, Atom(y.ks[c.j]), [c EXCEPT !.j = @ + 1])
  ELSE EndCall(c)

\* the next call of the root crate's impl (root) or of diff/src/std_impls.rs
\* for an ordered map or set
OrderedNext(root, x, y, c) ==
  IF x.k = "bmap"
  THEN (IF root THEN BTreeMapNext_peekable(x, y, c) ELSE BTreeMapNext(x, y, c))
  ELSE (IF root THEN Root_BTreeSetNext(x, y, c) ELSE BTreeSetNext(x, y, c))

\* the calls an impl makes on the sub-visitor from cursor c on, each with its
\* method, key and values
RECURSIVE OrderedEvents(_, _, _, _)
OrderedEvents(root, x, y, c) ==
  With(OrderedNext(root, x, y, c), LAMBDA nx :
    IF nx.ev = "end" THEN <<>>
    ELSE <<(<<nx.ev, nx.key, nx.l, nx.r>>)>> \o OrderedEvents(root, x, y, nx.cur))

\* C29: for every pair of BTreeMaps and of BTreeSets the root crate's
\* two-cursor merge makes the same calls on the sub-visitor, in the same
\* order and with the same keys and values, as the merge_join_by loop of
\* diff/src/std_impls.rs.
C29_MergesAgree ==
  a.k \in {"bmap", "bset"} =>
    /\ OrderedEvents(TRUE, a, b, Cur0) = OrderedEvents(FALSE, a, b, Cur0)
    /\ pc = "walk" => OrderedNext(TRUE, a, b, cur) = OrderedNext(FALSE, a, b, cur)
    /\ (pc = "done" /\ Begun) =>
         OrderedEvents(TRUE, a, b, Cur0) =
           [i \in DOMAIN SubCalls |->
              <<SubCalls[i].ev, SubCalls[i].key, SubCalls[i].l, SubCalls[i].r>>]

\* C29 witness: two maps were walked whose keys make the merge report a
\* common key, then a key of the left map, then, with the left map
\* exhausted, a key of the right map.
C29_Witness ==
  /\ Done("Record")
  /\ a.k = "bmap"
  /\ a.ks = <<0, 1>>
  /\ b.ks = <<0, 2>>
  /\ Len(SubCalls) = 3
  /\ SubCalls[3].ev = "only_in_right"

(***************************************************************************)
(* detect_all.rs: all_different with a counter of parts and of differences. *)
(***************************************************************************)
\* #[derive(Default)] struct DiffCounter { diffs, total }
DiffCounter_default == [diffs |-> 0, total |-> 0]

DiffCounter_consider(s, x, y) ==
  [total |-> s.total + 1,
   diffs |-> IF any_difference(x, y) THEN s.diffs + 1 ELSE s.diffs]

DiffCounter_diff(s) == [total |-> s.total + 1, diffs |-> s.diffs + 1]

DiffCounter_all(s) == s.total = s.diffs

\* Struct-, Tuple-, Seq-, Set- and MapDetector of detect_all.rs: what each
\* method does (diff_elements and skip_field are the traits' defaults)
CounterDetector_on(s, call) ==
  CASE call.ev \in {"diff_field", "diff_element", "diff_entry", "diff_equal"} ->
         DiffCounter_consider(s, call.l, call.r)
    [] call.ev \in {"left_excess", "right_excess", "only_in_left", "only_in_right"} ->
         DiffCounter_diff(s)
    [] call.ev = "skip_field" -> s

\* the rest of a walk on a detector of detect_all.rs
RECURSIVE CounterDetector_walk(_, _, _, _)
CounterDetector_walk(x, y, c, s) ==
  With(NextCall(x, y, c, "Counter"), LAMBDA nx :
    IF nx.ev = "end" THEN s
    ELSE CounterDetector_walk(x, y, nx.cur, CounterDetector_on(s, nx)))

\* detect_all::all_different(x, y): Diff::diff(x, y, Detector)
RECURSIVE Counter_all_different(_, _)
Counter_all_different(x, y) ==
  LET f == FirstCall(x, y) IN
  CASE f = "same" -> FALSE
    [] f = "difference" -> TRUE
    [] f = "diff_newtype" -> Counter_all_different(x.c[1], y.c[1])
    [] OTHER -> DiffCounter_all(CounterDetector_walk(x, y, Cur0, DiffCounter_default))

\* C30: all_different of detect_all.rs (total = diffs) returns the boolean
\* all_different of detect.rs (any /\ all) returns, for every pair of values,
\* composites without parts and sequences with excess elements included.
C30_CounterAgreesWithAll == Counter_all_different(a, b) = all_different(a, b)

\* the pairs on which the two all_different agree: the walk reports a part,
\* and no sequence has an excess element
C30_AgreeOnParts ==
  (/\ IsBegin(FirstCall(a, b))
   /\ \E i \in DOMAIN a.c : i \notin Range(a.ks) \/ a.k \in {"bmap", "hmap"}
   /\ a.k = "seq" => Len(a.c) = Len(b.c))
    => Counter_all_different(a, b) = all_different(a, b)
=========================================================================
